---- MODULE Spec2Model ----
(***************************************************************************)
(* Query classification, intent routing and goal-parameter extraction of   *)
(* the personal-finance assistant (FinancialAdvisorAgent, ContextManager,  *)
(* GoalPlanningAgent).                                                     *)
(*                                                                         *)
(* Text is modelled as sequences of one-character strings so that          *)
(* str.lower(), str.strip(), `in`, str.split() and re.search() are         *)
(* computed, not assumed.  Amounts (Python floats) are kept in hundredths. *)
(***************************************************************************)
EXTENDS Integers, Sequences, FiniteSets, TLC

(***************************************************************************)
(* Characters and the str methods the code uses                            *)
(***************************************************************************)
Digit == {"0", "1", "2", "3", "4", "5", "6", "7", "8", "9"}

LowerAlpha == {"a", "b", "c", "d", "e", "f", "g", "h", "i", "j", "k", "l", "m",
               "n", "o", "p", "q", "r", "s", "t", "u", "v", "w", "x", "y", "z"}

UpperAlpha == {"A", "B", "C", "D", "E", "F", "G", "H", "I", "J", "K", "L", "M",
               "N", "O", "P", "Q", "R", "S", "T", "U", "V", "W", "X", "Y", "Z"}

WordChar == Digit \cup LowerAlpha \cup UpperAlpha \cup {"_"}

Space == {" ", "\t", "\n"}

LowerOf == [c \in UpperAlpha |->
             CASE c = "A" -> "a" [] c = "B" -> "b" [] c = "C" -> "c" [] c = "D" -> "d"
               [] c = "E" -> "e" [] c = "F" -> "f" [] c = "G" -> "g" [] c = "H" -> "h"
               [] c = "I" -> "i" [] c = "J" -> "j" [] c = "K" -> "k" [] c = "L" -> "l"
               [] c = "M" -> "m" [] c = "N" -> "n" [] c = "O" -> "o" [] c = "P" -> "p"
               [] c = "Q" -> "q" [] c = "R" -> "r" [] c = "S" -> "s" [] c = "T" -> "t"
               [] c = "U" -> "u" [] c = "V" -> "v" [] c = "W" -> "w" [] c = "X" -> "x"
               [] c = "Y" -> "y" [] c = "Z" -> "z"]

LowerChar(c) == IF c \in UpperAlpha THEN LowerOf[c] ELSE c

UpperChar(c) == IF c \in LowerAlpha THEN CHOOSE u \in UpperAlpha : LowerOf[u] = c ELSE c

\* str.lower()
Lower(s) == [k \in 1..Len(s) |-> LowerChar(s[k])]

\* str.upper()
Upper(s) == [k \in 1..Len(s) |-> UpperChar(s[k])]

\* str.strip(): leading and trailing whitespace removed
Strip(s) ==
    LET keep == {k \in 1..Len(s) : s[k] \notin Space}
    IN  IF keep = {} THEN <<>>
        ELSE LET a == CHOOSE k \in keep : \A j \in keep : k <= j
                 b == CHOOSE k \in keep : \A j \in keep : k >= j
             IN  SubSeq(s, a, b)

\* sub in s
Contains(s, sub) ==
    \E k \in 1..(Len(s) - Len(sub) + 1) : SubSeq(s, k, k + Len(sub) - 1) = sub

\* len(s.split()): number of maximal runs of non-whitespace characters
WordCount(s) ==
    Cardinality({k \in 1..Len(s) : s[k] \notin Space /\ (k = 1 \/ s[k - 1] \in Space)})

\* s.replace(c, ''): every occurrence of the character c removed
RECURSIVE RemoveChar(_, _)
RemoveChar(s, c) ==
    IF s = <<>> THEN <<>>
    ELSE (IF Head(s) = c THEN <<>> ELSE <<Head(s)>>) \o RemoveChar(Tail(s), c)

\* s.split(c): the fields between occurrences of the character c
RECURSIVE SplitOn(_, _)
SplitOn(s, c) ==
    IF \A k \in 1..Len(s) : s[k] # c THEN <<s>>
    ELSE LET p == CHOOSE k \in 1..Len(s) : s[k] = c /\ \A j \in 1..(k - 1) : s[j] # c
         IN  <<SubSeq(s, 1, p - 1)>> \o SplitOn(SubSeq(s, p + 1, Len(s)), c)

(***************************************************************************)
(* Regular expressions (module re): backtracking matcher.  A match attempt *)
(* at a position yields the list of its possible outcomes in the order the *)
(* backtracking engine tries them; the first one is the match.             *)
(***************************************************************************)
Cls(S) == [t |-> "cls", cs |-> S]

NCls(S) == [t |-> "ncls", cs |-> S]

Cat(rs) == [t |-> "cat", rs |-> rs]

Alt(rs) == [t |-> "alt", rs |-> rs]

\* r{lo,hi}, greedy; hi = -1 is unbounded
Rep(r, lo, hi) == [t |-> "rep", r |-> r, lo |-> lo, hi |-> hi, greedy |-> TRUE]

\* r{lo,hi}?, lazy
Lazy(r, lo, hi) == [t |-> "rep", r |-> r, lo |-> lo, hi |-> hi, greedy |-> FALSE]

Opt(r) == Rep(r, 0, 1)

Star(r) == Rep(r, 0, -1)

Plus(r) == Rep(r, 1, -1)

\* the single capture group of a pattern
Cap(r) == [t |-> "cap", r |-> r]

\* \b
WordB == [t |-> "wb"]

\* $
Eos == [t |-> "eos"]

\* a literal string
Lit(str) == Cat([k \in 1..Len(str) |-> Cls({str[k]})])

\* the same with re.IGNORECASE
LitI(str) == Cat([k \in 1..Len(str) |-> Cls({LowerChar(str[k]), UpperChar(str[k])})])

RECURSIVE M(_, _, _, _)
RECURSIVE MCat(_, _, _, _, _)
RECURSIVE CatRest(_, _, _, _, _)
RECURSIVE MAlt(_, _, _, _, _)
RECURSIVE MRep(_, _, _, _, _)
RECURSIVE RepRest(_, _, _, _, _, _)

MCat(rs, k, s, i, c) ==
    IF k > Len(rs) THEN <<[e |-> i, c |-> c]>>
    ELSE CatRest(rs, k, s, M(rs[k], s, i, c), 1)

CatRest(rs, k, s, res, j) ==
    IF j > Len(res) THEN <<>>
    ELSE MCat(rs, k + 1, s, res[j].e, res[j].c) \o CatRest(rs, k, s, res, j + 1)

MAlt(rs, k, s, i, c) ==
    IF k > Len(rs) THEN <<>>
    ELSE M(rs[k], s, i, c) \o MAlt(rs, k + 1, s, i, c)

MRep(r, n, s, i, c) ==
    LET more == IF r.hi = -1 \/ n < r.hi
                THEN RepRest(r, n, s, i, M(r.r, s, i, c), 1)
                ELSE <<>>
        stop == IF n >= r.lo THEN <<[e |-> i, c |-> c]>> ELSE <<>>
    IN  IF r.greedy THEN more \o stop ELSE stop \o more

RepRest(r, n, s, i, res, j) ==
    IF j > Len(res) THEN <<>>
    ELSE (IF res[j].e > i THEN MRep(r, n + 1, s, res[j].e, res[j].c) ELSE <<>>)
         \o RepRest(r, n, s, i, res, j + 1)

M(r, s, i, c) ==
    CASE r.t = "cls"  -> IF i <= Len(s) /\ s[i] \in r.cs
                         THEN <<[e |-> i + 1, c |-> c]>> ELSE <<>>
      [] r.t = "ncls" -> IF i <= Len(s) /\ s[i] \notin r.cs
                         THEN <<[e |-> i + 1, c |-> c]>> ELSE <<>>
      [] r.t = "cat"  -> MCat(r.rs, 1, s, i, c)
      [] r.t = "alt"  -> MAlt(r.rs, 1, s, i, c)
      [] r.t = "rep"  -> MRep(r, 0, s, i, c)
      [] r.t = "cap"  -> LET res == M(r.r, s, i, c)
                         IN  [j \in 1..Len(res) |-> [e |-> res[j].e, c |-> <<i, res[j].e - 1>>]]
      [] r.t = "wb"   -> IF ((i > 1 /\ s[i - 1] \in WordChar)
                               /\ ~(i <= Len(s) /\ s[i] \in WordChar))
                            \/ (~(i > 1 /\ s[i - 1] \in WordChar)
                               /\ (i <= Len(s) /\ s[i] \in WordChar))
                         THEN <<[e |-> i, c |-> c]>> ELSE <<>>
      [] r.t = "eos"  -> IF i = Len(s) + 1 \/ (i = Len(s) /\ s[i] = "\n")
                         THEN <<[e |-> i, c |-> c]>> ELSE <<>>
      [] r.t = "end"  -> IF i = Len(s) + 1 THEN <<[e |-> i, c |-> c]>> ELSE <<>>

\* re.search(r, s): the match at the leftmost position where one exists;
\* g is group(1), the text of the capture group
RECURSIVE SearchFrom(_, _, _)
SearchFrom(r, s, i) ==
    IF i > Len(s) + 1 THEN [found |-> FALSE, g |-> <<>>]
    ELSE LET res == M(r, s, i, <<>>)
         IN  IF res # <<>>
             THEN [found |-> TRUE,
                   g |-> IF res[1].c = <<>> THEN <<>>
                         ELSE SubSeq(s, res[1].c[1], res[1].c[2])]
             ELSE SearchFrom(r, s, i + 1)

Search(r, s) == SearchFrom(r, s, 1)

\* re.match(r, s): a match at the start of s only
Match(r, s) == M(r, s, 1, <<>>) # <<>>

(***************************************************************************)
(* Numbers in text                                                         *)
(***************************************************************************)
DigitChars == <<"0", "1", "2", "3", "4", "5", "6", "7", "8", "9">>

DigitVal(c) == (CHOOSE k \in 1..10 : DigitChars[k] = c) - 1

\* int(s) for a string of decimal digits
RECURSIVE ParseInt(_)
ParseInt(s) ==
    IF s = <<>> THEN 0
    ELSE 10 * ParseInt(SubSeq(s, 1, Len(s) - 1)) + DigitVal(s[Len(s)])

\* float(s) for digits with an optional fraction, in hundredths; a third and
\* later decimal is dropped (the inputs of this model carry at most two)
ParseFloat(s) ==
    LET parts == SplitOn(s, ".")
        frac  == IF Len(parts) > 1 THEN parts[2] ELSE <<>>
        f2    == IF Len(frac) = 0 THEN 0
                 ELSE IF Len(frac) = 1 THEN 10 * DigitVal(frac[1])
                 ELSE 10 * DigitVal(frac[1]) + DigitVal(frac[2])
    IN  100 * ParseInt(parts[1]) + f2

(***************************************************************************)
(* GoalPlanningAgent._extract_goal_parameters: target_amount               *)
(***************************************************************************)
D == Cls(Digit)

WS == Cls(Space)

\* \d{1,3}(?:,\d{3})*(?:\.\d{1,2})?
Grouped ==
    Cat(<<Rep(D, 1, 3), Star(Cat(<<Cls({","}), Rep(D, 3, 3)>>)),
          Opt(Cat(<<Cls({"."}), Rep(D, 1, 2)>>))>>)

\* \d+[,\d]*(?:\.\d+)?
Loose ==
    Cat(<<Plus(D), Star(Cls(Digit \cup {","})), Opt(Cat(<<Cls({"."}), Plus(D)>>))>>)

amount_patterns ==
    <<
      [src |-> <<"\\", "$", "\\", "s", "*", "(", "\\", "d", "{", "1", ",", "3", "}", "(", "?", ":", ",", "\\", "d", "{", "3", "}", ")", "*", "(", "?", ":", "\\", ".", "\\", "d", "{", "1", ",", "2", "}", ")", "?", ")">>,
       re |-> Cat(<<Cls({"$"}), Star(WS), Cap(Grouped)>>)],
      [src |-> <<"(", "\\", "d", "{", "1", ",", "3", "}", "(", "?", ":", ",", "\\", "d", "{", "3", "}", ")", "*", "(", "?", ":", "\\", ".", "\\", "d", "{", "1", ",", "2", "}", ")", "?", ")", "(", "?", ":", "\\", "s", "*", "d", "o", "l", "l", "a", "r", "s", "|", "\\", "s", "*", "U", "S", "D", ")">>,
       re |-> Cat(<<Cap(Grouped), Alt(<<Cat(<<Star(WS), Lit(<<"d", "o", "l", "l", "a", "r", "s">>)>>), Cat(<<Star(WS), Lit(<<"U", "S", "D">>)>>)>>)>>)],
      [src |-> <<"(", "\\", "d", "+", ")", "k">>,
       re |-> Cat(<<Cap(Plus(D)), Cls({"k"})>>)],
      [src |-> <<"(", "\\", "d", "+", ")", "\\", "s", "*", "t", "h", "o", "u", "s", "a", "n", "d">>,
       re |-> Cat(<<Cap(Plus(D)), Star(WS), Lit(<<"t", "h", "o", "u", "s", "a", "n", "d">>)>>)],
      [src |-> <<"(", "\\", "d", "+", "(", "?", ":", "\\", ".", "\\", "d", "+", ")", "?", ")", "\\", "s", "*", "m", "i", "l", "l", "i", "o", "n">>,
       re |-> Cat(<<Cap(Cat(<<Plus(D), Opt(Cat(<<Cls({"."}), Plus(D)>>))>>)), Star(WS), Lit(<<"m", "i", "l", "l", "i", "o", "n">>)>>)],
      [src |-> <<"s", "a", "v", "e", "\\", "s", "*", "(", "?", ":", "a", "n", "?", "\\", "s", "*", ")", "?", "(", "?", ":", "t", "o", "t", "a", "l", "\\", "s", "*", ")", "?", "(", "?", ":", "o", "f", "\\", "s", "*", ")", "?", "[", "^", "0", "-", "9", "]", "*", "(", "\\", "d", "+", "[", ",", "\\", "d", "]", "*", "(", "?", ":", "\\", ".", "\\", "d", "+", ")", "?", ")">>,
       re |-> Cat(<<Lit(<<"s", "a", "v", "e">>), Star(WS), Opt(Cat(<<Cls({"a"}), Opt(Cls({"n"})), Star(WS)>>)), Opt(Cat(<<Lit(<<"t", "o", "t", "a", "l">>), Star(WS)>>)), Opt(Cat(<<Lit(<<"o", "f">>), Star(WS)>>)), Star(NCls(Digit)), Cap(Loose)>>)],
      [src |-> <<"g", "o", "a", "l", "(", "?", ":", "\\", "s", "*", "o", "f", ")", "?", "\\", "s", "*", "\\", "$", "?", "\\", "s", "*", "(", "\\", "d", "+", "[", ",", "\\", "d", "]", "*", "(", "?", ":", "\\", ".", "\\", "d", "+", ")", "?", ")">>,
       re |-> Cat(<<Lit(<<"g", "o", "a", "l">>), Opt(Cat(<<Star(WS), Lit(<<"o", "f">>)>>)), Star(WS), Opt(Cls({"$"})), Star(WS), Cap(Loose)>>)],
      [src |-> <<"(", "\\", "d", "+", "[", ",", "\\", "d", "]", "*", "(", "?", ":", "\\", ".", "\\", "d", "+", ")", "?", ")", "\\", "s", "*", "d", "o", "l", "l", "a", "r", "s">>,
       re |-> Cat(<<Cap(Loose), Star(WS), Lit(<<"d", "o", "l", "l", "a", "r", "s">>)>>)],
      [src |-> <<"(", "\\", "d", "+", "[", ",", "\\", "d", "]", "*", "(", "?", ":", "\\", ".", "\\", "d", "+", ")", "?", ")", "(", "?", ":", "\\", "s", "*", "d", "o", "l", "l", "a", "r", "|", "\\", "s", "*", "u", "s", "d", ")">>,
       re |-> Cat(<<Cap(Loose), Alt(<<Cat(<<Star(WS), Lit(<<"d", "o", "l", "l", "a", "r">>)>>), Cat(<<Star(WS), Lit(<<"u", "s", "d">>)>>)>>)>>)]
    >>

\* the multiplier is chosen by looking for 'k', 'thousand', 'million' in the
\* source text of the pattern that matched
AmountValue(pattern, g) ==
    LET amount_str == RemoveChar(g, ",")
    IN  IF Contains(pattern.src, <<"k">>) THEN ParseFloat(amount_str) * 1000
        ELSE IF Contains(pattern.src, <<"t", "h", "o", "u", "s", "a", "n", "d">>)
             THEN ParseFloat(amount_str) * 1000
        ELSE IF Contains(pattern.src, <<"m", "i", "l", "l", "i", "o", "n">>)
             THEN ParseFloat(amount_str) * 1000000
        ELSE ParseFloat(amount_str)

\* for pattern in amount_patterns: first match wins
RECURSIVE ExtractAmountFrom(_, _)
ExtractAmountFrom(query, k) ==
    IF k > Len(amount_patterns) THEN <<>>
    ELSE LET m == Search(amount_patterns[k].re, Lower(query))
         IN  IF m.found
             THEN "target_amount" :> AmountValue(amount_patterns[k], m.g)
             ELSE ExtractAmountFrom(query, k + 1)

ExtractAmount(query) == ExtractAmountFrom(query, 1)

(***************************************************************************)
(* Calendar dates (datetime, strptime, strftime)                           *)
(***************************************************************************)
\* a regular-expression end that admits no trailing newline
End == [t |-> "end"]

month_names ==
    <<<<"j", "a", "n", "u", "a", "r", "y">>,
      <<"f", "e", "b", "r", "u", "a", "r", "y">>,
      <<"m", "a", "r", "c", "h">>,
      <<"a", "p", "r", "i", "l">>,
      <<"m", "a", "y">>,
      <<"j", "u", "n", "e">>,
      <<"j", "u", "l", "y">>,
      <<"a", "u", "g", "u", "s", "t">>,
      <<"s", "e", "p", "t", "e", "m", "b", "e", "r">>,
      <<"o", "c", "t", "o", "b", "e", "r">>,
      <<"n", "o", "v", "e", "m", "b", "e", "r">>,
      <<"d", "e", "c", "e", "m", "b", "e", "r">>>>

IsLeap(y) == (y % 4 = 0 /\ y % 100 # 0) \/ y % 400 = 0

DaysInMonth(y, m) ==
    IF m = 2 THEN (IF IsLeap(y) THEN 29 ELSE 28)
    ELSE IF m \in {4, 6, 9, 11} THEN 30 ELSE 31

NoDate == [ok |-> FALSE, y |-> 0, m |-> 0, d |-> 0]

\* datetime(y, m, d): ValueError outside the calendar
MkDate(y, m, d) ==
    IF y \in 1..9999 /\ m \in 1..12 /\ d \in 1..DaysInMonth(y, m)
    THEN [ok |-> TRUE, y |-> y, m |-> m, d |-> d]
    ELSE NoDate

\* datetime(y, m + 1, 1) - timedelta(days=1), December handled apart
LastDayOfMonth(y, m) ==
    IF m = 12 THEN (IF y + 1 \in 1..9999 THEN MkDate(y, 12, 31) ELSE NoDate)
    ELSE MkDate(y, m, DaysInMonth(y, m))

AllDigits(s) == \A k \in 1..Len(s) : s[k] \in Digit

\* datetime.strptime(s, "%m/%d/%Y"): one or two digits, one or two digits,
\* exactly four digits, and a date of the calendar
StrptimeMDY(s) ==
    LET p == SplitOn(s, "/")
    IN  IF /\ Len(p) = 3
           /\ \A k \in 1..3 : AllDigits(p[k])
           /\ Len(p[1]) \in 1..2 /\ Len(p[2]) \in 1..2 /\ Len(p[3]) = 4
        THEN MkDate(ParseInt(p[3]), ParseInt(p[1]), ParseInt(p[2]))
        ELSE NoDate

Pad2(n) == <<DigitChars[(n \div 10) + 1], DigitChars[(n % 10) + 1]>>

\* date_obj.strftime("%m/%d/%Y"), years of four digits
Strftime(dt) ==
    Pad2(dt.m) \o <<"/">> \o Pad2(dt.d) \o <<"/">>
    \o Pad2(dt.y \div 100) \o Pad2(dt.y % 100)

DayField == Rep(D, 1, 2)

YearField == Rep(D, 4, 4)

\* datetime.strptime(s, "%B %d, %Y") for the month of number k
StrptimeBdY(s) ==
    LET fmt(k, capDay) ==
            Cat(<<LitI(month_names[k]), Plus(WS),
                  IF capDay THEN Cap(DayField) ELSE DayField,
                  Cls({","}), Plus(WS),
                  IF capDay THEN YearField ELSE Cap(YearField), End>>)
        ks == {k \in 1..12 : M(fmt(k, TRUE), s, 1, <<>>) # <<>>}
    IN  IF ks = {} THEN NoDate
        ELSE LET k  == CHOOSE x \in ks : TRUE
                 rd == M(fmt(k, TRUE), s, 1, <<>>)[1].c
                 ry == M(fmt(k, FALSE), s, 1, <<>>)[1].c
             IN  MkDate(ParseInt(SubSeq(s, ry[1], ry[2])), k,
                        ParseInt(SubSeq(s, rd[1], rd[2])))

\* datetime.strptime(s + " 1", "%B %Y %d"): the first day of the month named
StrptimeBY1(s) ==
    LET fmt(k) == Cat(<<LitI(month_names[k]), Plus(WS), Cap(YearField), Plus(WS),
                        Cls({"1"}), End>>)
        t  == s \o <<" ", "1">>
        ks == {k \in 1..12 : M(fmt(k), t, 1, <<>>) # <<>>}
    IN  IF ks = {} THEN NoDate
        ELSE LET k  == CHOOSE x \in ks : TRUE
                 ry == M(fmt(k), t, 1, <<>>)[1].c
             IN  MkDate(ParseInt(SubSeq(t, ry[1], ry[2])), k, 1)

\* re.sub(r'(\d+)(?:st|nd|rd|th)', r'\1', s)
OrdinalSuffix == {<<"s", "t">>, <<"n", "d">>, <<"r", "d">>, <<"t", "h">>}

RECURSIVE SubOrdinal(_, _)
SubOrdinal(s, k) ==
    IF k > Len(s) THEN <<>>
    ELSE IF /\ k > 1 /\ s[k - 1] \in Digit /\ k + 1 <= Len(s)
            /\ SubSeq(s, k, k + 1) \in OrdinalSuffix
         THEN SubOrdinal(s, k + 2)
         ELSE <<s[k]>> \o SubOrdinal(s, k + 1)


(***************************************************************************)
(* GoalPlanningAgent._extract_goal_parameters: target_date                 *)
(***************************************************************************)
\* the patterns are searched in the query with re.IGNORECASE
date_patterns ==
    <<Cat(<<LitI(<<"b", "y">>), Star(WS), Cap(Cat(<<Rep(D, 1, 2), Cls({"/"}), Rep(D, 1, 2), Cls({"/"}), Rep(D, 2, 4)>>))>>),
      Cat(<<LitI(<<"t", "i", "l", "l">>), Star(WS), Cap(Cat(<<Rep(D, 1, 2), Cls({"/"}), Rep(D, 1, 2), Cls({"/"}), Rep(D, 2, 4)>>))>>),
      Cat(<<LitI(<<"u", "n", "t", "i", "l">>), Star(WS), Cap(Cat(<<Rep(D, 1, 2), Cls({"/"}), Rep(D, 1, 2), Cls({"/"}), Rep(D, 2, 4)>>))>>),
      Cat(<<LitI(<<"b", "y">>), Star(WS), Cap(Cat(<<Plus(Cls(WordChar)), Plus(WS), Rep(D, 1, 2), Opt(Alt(<<LitI(<<"s", "t">>), LitI(<<"n", "d">>), LitI(<<"r", "d">>), LitI(<<"t", "h">>)>>)), Opt(Cls({","})), Star(WS), YearField>>))>>),
      Cat(<<LitI(<<"b", "y">>), Star(WS), Cap(Cat(<<Plus(Cls(WordChar)), Plus(WS), YearField>>))>>),
      Cat(<<LitI(<<"b", "y">>), Star(WS), Opt(Cat(<<LitI(<<"t", "h", "e">>), Star(WS)>>)), LitI(<<"e", "n", "d">>), Star(WS), LitI(<<"o", "f">>), Star(WS), Cap(Cat(<<Plus(Cls(WordChar)), Opt(Cat(<<Plus(WS), YearField>>))>>))>>),
      Cat(<<LitI(<<"b", "y">>), Star(WS), Opt(Cat(<<LitI(<<"t", "h", "e">>), Star(WS)>>)), LitI(<<"e", "n", "d">>), Star(WS), LitI(<<"o", "f">>), Star(WS), Cap(YearField)>>),
      Cat(<<LitI(<<"b", "y">>), Star(WS), Opt(Cat(<<LitI(<<"t", "h", "e">>), Star(WS)>>)), Alt(<<LitI(<<"n", "e", "x", "t">>), LitI(<<"f", "o", "l", "l", "o", "w", "i", "n", "g">>)>>), Star(WS), Cap(Plus(Cls(WordChar)))>>),
      Cat(<<LitI(<<"b", "y">>), Star(WS), Opt(Cat(<<LitI(<<"t", "h", "e">>), Star(WS)>>)), Alt(<<LitI(<<"n", "e", "x", "t">>), LitI(<<"f", "o", "l", "l", "o", "w", "i", "n", "g">>)>>), Star(WS), Cap(Cat(<<Plus(Cls(WordChar)), Plus(WS), YearField>>))>>)>>

\* the first month, in calendar order, whose name occurs in s; 0 if none
FirstMonthIn(s) ==
    LET ks == {k \in 1..12 : Contains(Lower(s), month_names[k])}
    IN  IF ks = {} THEN 0 ELSE CHOOSE k \in ks : \A j \in ks : k <= j

\* re.search(r'\d{4}', date_str)
YearIn(date_str) == Search(Cap(YearField), date_str)

\* "/" in date_str: the day-first test and strptime
ParseSlashDate(date_str) ==
    LET parts == SplitOn(date_str, "/")
    IN  IF Len(parts) # 3 \/ \E k \in 1..2 : parts[k] = <<>> \/ ~AllDigits(parts[k])
        THEN NoDate
        ELSE IF /\ 1 <= ParseInt(parts[1]) /\ ParseInt(parts[1]) <= 31
                /\ 1 <= ParseInt(parts[2]) /\ ParseInt(parts[2]) <= 12
             THEN StrptimeMDY(parts[2] \o <<"/">> \o parts[1] \o <<"/">> \o parts[3])
             ELSE StrptimeMDY(date_str)

\* "end of" in query.lower()
ParseEndOf(date_str, query, now) ==
    IF Match(YearField, date_str)
    THEN IF AllDigits(date_str) THEN MkDate(ParseInt(date_str), 12, 31) ELSE NoDate
    ELSE LET k    == FirstMonthIn(date_str)
             ym   == YearIn(date_str)
             year == IF Contains(Lower(query), <<"n", "e", "x", "t", " ", "y", "e", "a", "r">>) THEN now.y + 1
                     ELSE IF ym.found THEN ParseInt(ym.g) ELSE now.y
         IN  IF k = 0 THEN NoDate ELSE LastDayOfMonth(year, k)

\* "next" in query.lower() or "following" in query.lower()
ParseNext(date_str, now) ==
    IF Contains(Lower(date_str), <<"y", "e", "a", "r">>)
    THEN MkDate(now.y + 1, 12, 31)
    ELSE LET k    == FirstMonthIn(date_str)
             ym   == YearIn(date_str)
             year == IF ym.found THEN ParseInt(ym.g)
                     ELSE IF k <= now.m THEN now.y + 1 ELSE now.y
         IN  IF k = 0 THEN NoDate ELSE LastDayOfMonth(year, k)

\* the body of the try block: the date, or ok = FALSE where the code raises
\* ValueError, AttributeError or UnboundLocalError (date_obj never bound)
ParseDate(date_str, query, now) ==
    IF Contains(date_str, <<"/">>) THEN ParseSlashDate(date_str)
    ELSE IF Match(Cat(<<Plus(Cls(WordChar)), Plus(WS), Rep(D, 1, 2),
                        Opt(Alt(<<Lit(<<"s", "t">>), Lit(<<"n", "d">>), Lit(<<"r", "d">>), Lit(<<"t", "h">>)>>)),
                        Opt(Cls({","})), Star(WS), YearField>>), date_str)
         THEN StrptimeBdY(SubOrdinal(date_str, 1))
    ELSE IF Match(Cat(<<Plus(Cls(WordChar)), Plus(WS), YearField>>), date_str)
         THEN LET first == StrptimeBY1(date_str)
              IN  IF first.ok THEN LastDayOfMonth(first.y, first.m) ELSE NoDate
    ELSE IF Contains(Lower(query), <<"e", "n", "d", " ", "o", "f">>)
         THEN ParseEndOf(date_str, query, now)
    ELSE IF Contains(Lower(query), <<"n", "e", "x", "t">>) \/ Contains(Lower(query), <<"f", "o", "l", "l", "o", "w", "i", "n", "g">>)
         THEN ParseNext(date_str, now)
    ELSE NoDate

\* for pattern in date_patterns: the first pattern that matches and parses
\* wins; a pattern whose date does not parse is passed over
RECURSIVE ExtractDateFrom(_, _, _)
ExtractDateFrom(query, now, k) ==
    IF k > Len(date_patterns) THEN <<>>
    ELSE LET m  == Search(date_patterns[k], query)
             dt == ParseDate(m.g, query, now)
         IN  IF m.found /\ dt.ok THEN "target_date" :> Strftime(dt)
             ELSE ExtractDateFrom(query, now, k + 1)

\* "end of <month> next year", tried when no pattern gave a date
ExtractDateSpecial(query, now) ==
    LET k == FirstMonthIn(query)
    IN  IF /\ Contains(Lower(query), <<"n", "e", "x", "t", " ", "y", "e", "a", "r">>)
           /\ Contains(Lower(query), <<"e", "n", "d", " ", "o", "f">>)
           /\ k # 0 /\ LastDayOfMonth(now.y + 1, k).ok
        THEN "target_date" :> Strftime(LastDayOfMonth(now.y + 1, k))
        ELSE <<>>

ExtractDate(query, now) ==
    LET found == ExtractDateFrom(query, now, 1)
    IN  IF DOMAIN found # {} THEN found ELSE ExtractDateSpecial(query, now)



(***************************************************************************)
(* GoalPlanningAgent._extract_goal_parameters: goal_type, current_savings, *)
(* priority, and the whole record                                          *)
(***************************************************************************)
specific_phrases ==
    <<[re |-> Lit(<<"e", "m", "e", "r", "g", "e", "n", "c", "y", " ", "f", "u", "n", "d">>),
       goal_type |-> "Emergency Fund"],
      [re |-> Cat(<<Lit(<<"r", "e", "t", "i", "r", "e", "m", "e", "n", "t", " ">>), Alt(<<Lit(<<"p", "l", "a", "n">>), Lit(<<"f", "u", "n", "d">>), Lit(<<"s", "a", "v", "i", "n", "g", "s">>)>>)>>),
       goal_type |-> "Retirement"],
      [re |-> Cat(<<Lit(<<"c", "o", "l", "l", "e", "g", "e", " ">>), Alt(<<Lit(<<"f", "u", "n", "d">>), Lit(<<"s", "a", "v", "i", "n", "g", "s">>)>>)>>),
       goal_type |-> "Education"],
      [re |-> Cat(<<Lit(<<"e", "d", "u", "c", "a", "t", "i", "o", "n", " ">>), Alt(<<Lit(<<"f", "u", "n", "d">>), Lit(<<"s", "a", "v", "i", "n", "g", "s">>)>>)>>),
       goal_type |-> "Education"],
      [re |-> Cat(<<Lit(<<"h", "o", "u", "s", "e", " ">>), Alt(<<Lit(<<"f", "u", "n", "d">>), Lit(<<"s", "a", "v", "i", "n", "g", "s">>), Lit(<<"d", "o", "w", "n", " ", "p", "a", "y", "m", "e", "n", "t">>)>>)>>),
       goal_type |-> "Home Purchase"],
      [re |-> Cat(<<Lit(<<"h", "o", "m", "e", " ">>), Alt(<<Lit(<<"f", "u", "n", "d">>), Lit(<<"s", "a", "v", "i", "n", "g", "s">>), Lit(<<"d", "o", "w", "n", " ", "p", "a", "y", "m", "e", "n", "t">>)>>)>>),
       goal_type |-> "Home Purchase"],
      [re |-> Cat(<<Lit(<<"v", "a", "c", "a", "t", "i", "o", "n", " ">>), Alt(<<Lit(<<"f", "u", "n", "d">>), Lit(<<"s", "a", "v", "i", "n", "g", "s">>)>>)>>),
       goal_type |-> "Travel"],
      [re |-> Cat(<<Lit(<<"t", "r", "a", "v", "e", "l", " ">>), Alt(<<Lit(<<"f", "u", "n", "d">>), Lit(<<"s", "a", "v", "i", "n", "g", "s">>)>>)>>),
       goal_type |-> "Travel"],
      [re |-> Cat(<<Lit(<<"c", "a", "r", " ">>), Alt(<<Lit(<<"f", "u", "n", "d">>), Lit(<<"s", "a", "v", "i", "n", "g", "s">>)>>)>>),
       goal_type |-> "Car Purchase"],
      [re |-> Cat(<<Lit(<<"v", "e", "h", "i", "c", "l", "e", " ">>), Alt(<<Lit(<<"f", "u", "n", "d">>), Lit(<<"s", "a", "v", "i", "n", "g", "s">>)>>)>>),
       goal_type |-> "Car Purchase"],
      [re |-> Cat(<<Lit(<<"w", "e", "d", "d", "i", "n", "g", " ">>), Alt(<<Lit(<<"f", "u", "n", "d">>), Lit(<<"s", "a", "v", "i", "n", "g", "s">>)>>)>>),
       goal_type |-> "Wedding"],
      [re |-> Cat(<<Lit(<<"m", "e", "d", "i", "c", "a", "l", " ">>), Alt(<<Lit(<<"f", "u", "n", "d">>), Lit(<<"s", "a", "v", "i", "n", "g", "s">>), Lit(<<"e", "x", "p", "e", "n", "s", "e", "s">>)>>)>>),
       goal_type |-> "Medical Expenses"],
      [re |-> Cat(<<Lit(<<"h", "e", "a", "l", "t", "h", " ">>), Alt(<<Lit(<<"f", "u", "n", "d">>), Lit(<<"s", "a", "v", "i", "n", "g", "s">>)>>)>>),
       goal_type |-> "Medical Expenses"]>>

goal_types ==
    <<[name |-> <<"R", "e", "t", "i", "r", "e", "m", "e", "n", "t">>, goal_type |-> "Retirement"],
      [name |-> <<"H", "o", "m", "e", " ", "P", "u", "r", "c", "h", "a", "s", "e">>, goal_type |-> "Home Purchase"],
      [name |-> <<"E", "d", "u", "c", "a", "t", "i", "o", "n">>, goal_type |-> "Education"],
      [name |-> <<"E", "m", "e", "r", "g", "e", "n", "c", "y", " ", "F", "u", "n", "d">>, goal_type |-> "Emergency Fund"],
      [name |-> <<"T", "r", "a", "v", "e", "l">>, goal_type |-> "Travel"],
      [name |-> <<"C", "a", "r", " ", "P", "u", "r", "c", "h", "a", "s", "e">>, goal_type |-> "Car Purchase"],
      [name |-> <<"W", "e", "d", "d", "i", "n", "g">>, goal_type |-> "Wedding"],
      [name |-> <<"M", "e", "d", "i", "c", "a", "l", " ", "E", "x", "p", "e", "n", "s", "e", "s">>, goal_type |-> "Medical Expenses"]>>

\* the elif chain of substring tests, in its order
partial_matches ==
    <<[words |-> {<<"e", "m", "e", "r", "g", "e", "n", "c", "y">>, <<"f", "u", "n", "d">>}, goal_type |-> "Emergency Fund"],
      [words |-> {<<"h", "o", "m", "e">>, <<"h", "o", "u", "s", "e">>}, goal_type |-> "Home Purchase"],
      [words |-> {<<"e", "d", "u", "c", "a", "t", "i", "o", "n">>, <<"c", "o", "l", "l", "e", "g", "e">>, <<"s", "c", "h", "o", "o", "l">>}, goal_type |-> "Education"],
      [words |-> {<<"c", "a", "r">>, <<"v", "e", "h", "i", "c", "l", "e">>, <<"a", "u", "t", "o">>}, goal_type |-> "Car Purchase"],
      [words |-> {<<"t", "r", "a", "v", "e", "l">>, <<"v", "a", "c", "a", "t", "i", "o", "n">>, <<"t", "r", "i", "p">>}, goal_type |-> "Travel"],
      [words |-> {<<"w", "e", "d", "d", "i", "n", "g">>, <<"m", "a", "r", "r", "i", "a", "g", "e">>}, goal_type |-> "Wedding"],
      [words |-> {<<"m", "e", "d", "i", "c", "a", "l">>, <<"h", "e", "a", "l", "t", "h">>, <<"d", "o", "c", "t", "o", "r">>}, goal_type |-> "Medical Expenses"],
      [words |-> {<<"r", "e", "t", "i", "r", "e">>}, goal_type |-> "Retirement"]>>

GoalTypeParams(goal_type) == ("goal_type" :> goal_type) @@ ("goal_name" :> goal_type)

RECURSIVE ExtractPhrase(_, _)
ExtractPhrase(query, k) ==
    IF k > Len(specific_phrases) THEN <<>>
    ELSE IF Search(specific_phrases[k].re, Lower(query)).found
         THEN GoalTypeParams(specific_phrases[k].goal_type)
         ELSE ExtractPhrase(query, k + 1)

\* rf'\b{goal_type.lower()}\b'
RECURSIVE ExtractExactType(_, _)
ExtractExactType(query, k) ==
    IF k > Len(goal_types) THEN <<>>
    ELSE IF Search(Cat(<<WordB, Lit(Lower(goal_types[k].name)), WordB>>), Lower(query)).found
         THEN GoalTypeParams(goal_types[k].goal_type)
         ELSE ExtractExactType(query, k + 1)

RECURSIVE ExtractPartial(_, _)
ExtractPartial(query, k) ==
    IF k > Len(partial_matches) THEN <<>>
    ELSE IF \E w \in partial_matches[k].words : Contains(Lower(query), w)
         THEN GoalTypeParams(partial_matches[k].goal_type)
         ELSE ExtractPartial(query, k + 1)

\* three tiers; a later tier is tried only when "goal_type" is still absent
ExtractGoalType(query) ==
    LET a == ExtractPhrase(query, 1)
        b == ExtractExactType(query, 1)
    IN  IF DOMAIN a # {} THEN a
        ELSE IF DOMAIN b # {} THEN b
        ELSE ExtractPartial(query, 1)

savings_patterns ==
    <<Cat(<<Lit(<<"c", "u", "r", "r", "e", "n", "t">>), Opt(Lit(<<"l", "y">>)), Star(WS), Lit(<<"s", "a", "v">>), Alt(<<Lit(<<"e", "d">>), Lit(<<"i", "n", "g", "s">>)>>), Star(WS), Opt(Alt(<<Lit(<<"o", "f">>), Lit(<<"i", "s">>)>>)), Star(WS), Opt(Cls({"$"})), Star(WS), Cap(Loose)>>),
      Cat(<<Lit(<<"a", "l", "r", "e", "a", "d", "y">>), Star(WS), Alt(<<Lit(<<"h", "a", "v", "e">>), Lit(<<"s", "a", "v", "e", "d">>)>>), Star(WS), Opt(Cls({"$"})), Star(WS), Cap(Loose)>>),
      Cat(<<Lit(<<"s", "a", "v", "e", "d">>), Star(WS), Opt(Cls({"$"})), Star(WS), Cap(Loose), Star(WS), Alt(<<Lit(<<"s", "o", " ", "f", "a", "r">>), Lit(<<"a", "l", "r", "e", "a", "d", "y">>), Lit(<<"t", "o", " ", "d", "a", "t", "e">>)>>)>>)>>

RECURSIVE ExtractSavingsFrom(_, _)
ExtractSavingsFrom(query, k) ==
    IF k > Len(savings_patterns) THEN <<>>
    ELSE LET m == Search(savings_patterns[k], Lower(query))
         IN  IF m.found THEN "current_savings" :> ParseFloat(RemoveChar(m.g, ","))
             ELSE ExtractSavingsFrom(query, k + 1)

ExtractSavings(query) == ExtractSavingsFrom(query, 1)

\* iteration order of the dict literal
priority_map ==
    <<[key |-> <<"v", "e", "r", "y", " ", "h", "i", "g", "h">>, value |-> "Very High"],
      [key |-> <<"h", "i", "g", "h">>, value |-> "High"],
      [key |-> <<"m", "e", "d", "i", "u", "m">>, value |-> "Medium"],
      [key |-> <<"l", "o", "w">>, value |-> "Low"],
      [key |-> <<"v", "e", "r", "y", " ", "l", "o", "w">>, value |-> "Low"]>>

\* rf'\b{priority_lower}\b\s*priority'
RECURSIVE ExtractPriorityFrom(_, _)
ExtractPriorityFrom(query, k) ==
    IF k > Len(priority_map) THEN <<>>
    ELSE IF Search(Cat(<<WordB, Lit(priority_map[k].key), WordB, Star(WS),
                         Lit(<<"p", "r", "i", "o", "r", "i", "t", "y">>)>>), Lower(query)).found
         THEN "priority" :> priority_map[k].value
         ELSE ExtractPriorityFrom(query, k + 1)

ExtractPriority(query) == ExtractPriorityFrom(query, 1)

\* _extract_goal_parameters(query): the record of the fields found; now is
\* datetime.now() as [y, m]
ExtractGoalParameters(query, now) ==
    ExtractGoalType(query) @@ ExtractAmount(query) @@ ExtractDate(query, now)
    @@ ExtractSavings(query) @@ ExtractPriority(query)



(***************************************************************************)
(* ContextManager (utils/context_management.py)                            *)
(*                                                                         *)
(* A completion call is given by its outcome: [raises, text].  Only the    *)
(* length of chat_history is read by the code outside the prompt text.     *)
(***************************************************************************)
max_history == 5

\* a query that is not a str (None): its str methods raise AttributeError
None == <<"None">>

Min(a, b) == IF a < b THEN a ELSE b

\* chat_history[-min(self.max_history*2, len(chat_history)):]
RecentHistoryLen(hist_len) == Min(max_history * 2, hist_len)

\* an _llm_should_rewrite whose except branch always answers False
LlmShouldRewriteNoFallback(current_query, llm) ==
    IF llm.raises THEN FALSE
    ELSE Contains(Upper(llm.text), <<"Y", "E", "S">>)

\* _llm_should_rewrite: "YES" in response.upper(); on an exception, queries
\* of at most three words are taken to need context
LlmShouldRewrite(current_query, llm) ==
    IF llm.raises THEN WordCount(current_query) <= 3
    ELSE Contains(Upper(llm.text), <<"Y", "E", "S">>)

\* the except branch of _llm_should_rewrite calls current_query.split()
LlmShouldRewriteRaises(current_query, llm) == llm.raises /\ current_query = None

\* a should_rewrite_query that asks the completion service for any
\* non-empty history
ShouldRewriteAnyHistory(current_query, hist_len, llm) ==
    IF hist_len < 1 THEN [result |-> FALSE, calls |-> 0]
    ELSE [result |-> LlmShouldRewrite(current_query, llm), calls |-> 1]

\* should_rewrite_query: [result, calls], calls the completion calls made
ShouldRewriteQuery(current_query, hist_len, llm) ==
    IF hist_len < 2 THEN [result |-> FALSE, calls |-> 0]
    ELSE [result |-> LlmShouldRewrite(current_query, llm), calls |-> 1]

\* should_rewrite_query has no try block of its own
ShouldRewriteQueryRaises(current_query, hist_len, llm) ==
    hist_len >= 2 /\ LlmShouldRewriteRaises(current_query, llm)

\* a rewrite_query that accepts any non-empty completion
RewriteQueryAcceptsEcho(current_query, hist_len, llm_should, llm_rewrite) ==
    LET should == ShouldRewriteQuery(current_query, hist_len, llm_should)
        text   == Strip(llm_rewrite.text)
    IN  IF ~should.result
        THEN [query |-> current_query, rewritten |-> FALSE,
              should_calls |-> should.calls, rewrite_calls |-> 0]
        ELSE IF llm_rewrite.raises \/ text = <<>>
        THEN [query |-> current_query, rewritten |-> FALSE,
              should_calls |-> should.calls, rewrite_calls |-> 1]
        ELSE [query |-> text, rewritten |-> TRUE,
              should_calls |-> should.calls, rewrite_calls |-> 1]

\* rewrite_query: [query, rewritten, should_calls, rewrite_calls].  The
\* comparison with current_query.lower() is inside the try block
RewriteQuery(current_query, hist_len, llm_should, llm_rewrite) ==
    LET should == ShouldRewriteQuery(current_query, hist_len, llm_should)
        text   == Strip(llm_rewrite.text)
        same   == [query |-> current_query, rewritten |-> FALSE,
                   should_calls |-> should.calls, rewrite_calls |-> 1]
    IN  IF ~should.result
        THEN [query |-> current_query, rewritten |-> FALSE,
              should_calls |-> should.calls, rewrite_calls |-> 0]
        ELSE IF llm_rewrite.raises THEN same
        ELSE IF text = <<>> \/ current_query = None THEN same
        ELSE IF Lower(text) = Lower(current_query) THEN same
        ELSE [query |-> text, rewritten |-> TRUE,
              should_calls |-> should.calls, rewrite_calls |-> 1]

(***************************************************************************)
(* FinancialAdvisorAgent: goal-focus check and top-level classification    *)
(***************************************************************************)
goal_creation_patterns ==
    <<Cat(<<Lit(<<"c", "r", "e", "a", "t", "e", " ">>), Alt(<<Lit(<<"a", " ">>), Lit(<<"n", "e", "w", " ">>), Lit(<<>>)>>), Lit(<<"g", "o", "a", "l">>)>>),
      Cat(<<Lit(<<"s", "e", "t", " ", "u", "p", " ">>), Alt(<<Lit(<<"a", " ">>), Lit(<<"n", "e", "w", " ">>), Lit(<<>>)>>), Lit(<<"g", "o", "a", "l">>)>>),
      Cat(<<Lit(<<"s", "t", "a", "r", "t", " ">>), Alt(<<Lit(<<"a", " ">>), Lit(<<"n", "e", "w", " ">>), Lit(<<>>)>>), Lit(<<"g", "o", "a", "l">>)>>),
      Cat(<<Lit(<<"e", "s", "t", "a", "b", "l", "i", "s", "h", " ">>), Alt(<<Lit(<<"a", " ">>), Lit(<<"n", "e", "w", " ">>), Lit(<<>>)>>), Lit(<<"g", "o", "a", "l">>)>>),
      Lit(<<"s", "a", "v", "e", " ", "f", "o", "r">>),
      Lit(<<"e", "m", "e", "r", "g", "e", "n", "c", "y", " ", "f", "u", "n", "d">>),
      Lit(<<"r", "e", "t", "i", "r", "e", "m", "e", "n", "t", " ", "f", "u", "n", "d">>),
      Lit(<<"e", "d", "u", "c", "a", "t", "i", "o", "n", " ", "f", "u", "n", "d">>),
      Lit(<<"h", "o", "m", "e", " ", "p", "u", "r", "c", "h", "a", "s", "e">>),
      Lit(<<"t", "r", "a", "v", "e", "l", " ", "f", "u", "n", "d">>),
      Lit(<<"c", "a", "r", " ", "f", "u", "n", "d">>),
      Lit(<<"w", "e", "d", "d", "i", "n", "g", " ", "f", "u", "n", "d">>),
      Lit(<<"m", "e", "d", "i", "c", "a", "l", " ", "e", "x", "p", "e", "n", "s", "e">>)>>

\* _is_goal_related_request: response.strip().upper() == "YES"; the regex
\* battery only in the except branch
IsGoalRelatedRequestRaises(user_query, llm) == llm.raises /\ user_query = None

IsGoalRelatedRequest(user_query, llm) ==
    IF llm.raises
    THEN \E k \in 1..Len(goal_creation_patterns) :
            Search(goal_creation_patterns[k], Lower(user_query)).found
    ELSE Upper(Strip(llm.text)) = <<"Y", "E", "S">>

valid_categories ==
    <<"Transaction Analysis", "Goal Planning", "Asset Allocation", "Education",
      "General Financial Advice">>

InSeq(x, s) == \E k \in 1..Len(s) : s[k] = x

\* [cat for cat in categories if cat in valid_categories]
RECURSIVE FilterValid(_)
FilterValid(categories) ==
    IF categories = <<>> THEN <<>>
    ELSE (IF InSeq(Head(categories), valid_categories) THEN <<Head(categories)>> ELSE <<>>)
         \o FilterValid(Tail(categories))

\* _classify_with_llm.  The response is given as [raises, marker, labels]:
\* marker says whether "CLASSIFICATION: " occurs in it, labels are the
\* comma-separated fields after it, stripped
ClassifyWithLlm(llm) ==
    IF llm.raises \/ ~llm.marker THEN <<>> ELSE FilterValid(llm.labels)

transaction_keywords ==
    {<<"s", "p", "e", "n", "d">>,
       <<"s", "p", "e", "n", "d", "i", "n", "g">>,
       <<"t", "r", "a", "n", "s", "a", "c", "t", "i", "o", "n">>,
       <<"p", "u", "r", "c", "h", "a", "s", "e">>,
       <<"b", "o", "u", "g", "h", "t">>,
       <<"b", "u", "y">>,
       <<"b", "u", "d", "g", "e", "t">>,
       <<"e", "x", "p", "e", "n", "s", "e">>,
       <<"m", "o", "n", "e", "y">>,
       <<"c", "o", "s", "t">>,
       <<"b", "i", "l", "l">>,
       <<"s", "u", "b", "s", "c", "r", "i", "p", "t", "i", "o", "n">>,
       <<"p", "a", "i", "d">>}

goal_keywords ==
    {<<"g", "o", "a", "l">>,
       <<"s", "a", "v", "e">>,
       <<"s", "a", "v", "i", "n", "g">>,
       <<"t", "a", "r", "g", "e", "t">>,
       <<"p", "l", "a", "n", "n", "i", "n", "g">>,
       <<"r", "e", "t", "i", "r", "e">>,
       <<"r", "e", "t", "i", "r", "e", "m", "e", "n", "t">>,
       <<"c", "o", "l", "l", "e", "g", "e">>,
       <<"e", "d", "u", "c", "a", "t", "i", "o", "n">>,
       <<"h", "o", "u", "s", "e">>,
       <<"h", "o", "m", "e">>,
       <<"c", "a", "r">>,
       <<"t", "r", "a", "v", "e", "l">>,
       <<"v", "a", "c", "a", "t", "i", "o", "n">>,
       <<"w", "e", "d", "d", "i", "n", "g">>,
       <<"e", "m", "e", "r", "g", "e", "n", "c", "y", " ", "f", "u", "n", "d">>,
       <<"f", "u", "n", "d">>,
       <<"e", "m", "e", "r", "g", "e", "n", "c", "y">>,
       <<"m", "e", "d", "i", "c", "a", "l">>,
       <<"e", "x", "p", "e", "n", "s", "e">>,
       <<"p", "u", "r", "c", "h", "a", "s", "e">>}

investment_keywords ==
    {<<"i", "n", "v", "e", "s", "t">>,
       <<"i", "n", "v", "e", "s", "t", "i", "n", "g">>,
       <<"i", "n", "v", "e", "s", "t", "m", "e", "n", "t">>,
       <<"p", "o", "r", "t", "f", "o", "l", "i", "o">>,
       <<"s", "t", "o", "c", "k">>,
       <<"b", "o", "n", "d">>,
       <<"a", "s", "s", "e", "t">>,
       <<"a", "l", "l", "o", "c", "a", "t", "i", "o", "n">>,
       <<"f", "u", "n", "d">>,
       <<"e", "t", "f">>,
       <<"m", "u", "t", "u", "a", "l", " ", "f", "u", "n", "d">>,
       <<"r", "i", "s", "k">>,
       <<"r", "e", "t", "u", "r", "n">>}

education_keywords ==
    {<<"w", "h", "a", "t", " ", "i", "s">>,
       <<"h", "o", "w", " ", "d", "o", "e", "s">>,
       <<"e", "x", "p", "l", "a", "i", "n">>,
       <<"d", "e", "f", "i", "n", "e">>,
       <<"m", "e", "a", "n">>,
       <<"d", "i", "f", "f", "e", "r", "e", "n", "c", "e", " ", "b", "e", "t", "w", "e", "e", "n">>,
       <<"u", "n", "d", "e", "r", "s", "t", "a", "n", "d">>,
       <<"w", "o", "r", "k", "s">>,
       <<"c", "o", "n", "c", "e", "p", "t">>}

AnyKeyword(keywords, query_lower) == \E w \in keywords : Contains(query_lower, w)

\* a heuristic pass that leaves the default category out when a keyword
\* list matched
HeuristicWithoutDefault(user_query) ==
    LET query_lower == Lower(user_query)
        categories ==
            (IF AnyKeyword(transaction_keywords, query_lower)
             THEN <<"Transaction Analysis">> ELSE <<>>)
            \o (IF AnyKeyword(goal_keywords, query_lower)
                THEN <<"Goal Planning">> ELSE <<>>)
            \o (IF AnyKeyword(investment_keywords, query_lower)
                THEN <<"Asset Allocation">> ELSE <<>>)
            \o (IF AnyKeyword(education_keywords, query_lower)
                THEN <<"Education">> ELSE <<>>)
    IN  IF categories = <<>> THEN <<"General Financial Advice">> ELSE categories

\* the heuristic pass of _classify_query
HeuristicCategories(user_query) ==
    LET query_lower == Lower(user_query)
        categories ==
            (IF AnyKeyword(transaction_keywords, query_lower)
             THEN <<"Transaction Analysis">> ELSE <<>>)
            \o (IF AnyKeyword(goal_keywords, query_lower)
                THEN <<"Goal Planning">> ELSE <<>>)
            \o (IF AnyKeyword(investment_keywords, query_lower)
                THEN <<"Asset Allocation">> ELSE <<>>)
            \o (IF AnyKeyword(education_keywords, query_lower)
                THEN <<"Education">> ELSE <<>>)
        defaulted == IF categories = <<>> THEN <<"General Financial Advice">>
                     ELSE categories
    IN  IF InSeq("General Financial Advice", defaulted) THEN defaulted
        ELSE Append(defaulted, "General Financial Advice")

\* the heuristic pass starts with user_query.lower(), outside any try block
ClassifyQueryRaises(user_query, llm) == ClassifyWithLlm(llm) = <<>> /\ user_query = None

\* _classify_query: the LLM's categories when there are any, else the
\* heuristic pass
ClassifyQuery(user_query, llm) ==
    LET categories == ClassifyWithLlm(llm)
    IN  IF categories # <<>> THEN categories
        ELSE HeuristicCategories(user_query)



(***************************************************************************)
(* Inputs of the model                                                     *)
(***************************************************************************)
\* longest chat history supplied to a cycle
MaxHistory == 3

\* most labels in one classification response
MaxLabels == 2

Queries ==
    {<<"s", "a", "v", "e", " ", "f", "o", "r", " ", "c", "a", "r">>,
     <<"m", "y", " ", "s", "p", "e", "n", "d", "i", "n", "g">>,
     <<"w", "h", "a", "t", " ", "i", "s", " ", "e", "t", "f">>,
     <<"h", "i">>,
     <<"5", "0", "0", "0">>,
     <<"e", "x", "p", "l", "a", "i", "n", " ", "h", "o", "w", " ", "a", " ", "m", "u", "t", "u", "a", "l", " ", "f", "u", "n", "d", " ", "w", "o", "r", "k", "s">>,
     <<"e", "x", "p", "l", "a", "i", "n", " ", "i", "n", "v", "e", "s", "t", "m", "e", "n", "t", " ", "e", "x", "p", "e", "n", "s", "e">>,
     None}

Raise == [raises |-> TRUE, text |-> <<>>]

Reply(text) == [raises |-> FALSE, text |-> text]

\* answers of the completion service to the should-rewrite question
ShouldReplies ==
    {Raise, Reply(<<"Y", "E", "S">>), Reply(<<"N", "O">>), Reply(<<"Y", "e", "s", ",", " ", "i", "t", " ", "d", "o", "e", "s">>)}

\* answers to the rewrite request for the query q: failure, nothing, blanks,
\* q again in other letter case, and two standalone queries
RewriteReplies(q) ==
    {Raise, Reply(<<>>), Reply(<<" ", "\n">>), Reply(<<" ">> \o Upper(q)),
     Reply(<<"s", "a", "v", "e", " ", "f", "o", "r", " ", "c", "a", "r">>), Reply(<<"w", "h", "a", "t", " ", "i", "s", " ", "e", "t", "f", " ">>)}

\* answers to the goal-focus question
GoalReplies ==
    {Raise, Reply(<<"Y", "E", "S">>), Reply(<<"N", "O">>), Reply(<<" ", "y", "e", "s", "\n">>), Reply(<<"Y", "e", "s", ".">>)}

\* fields a classification response may list: the five labels, a label in
\* other letter case, and a word outside the vocabulary
LabelTokens ==
    {"Transaction Analysis", "Goal Planning", "Asset Allocation", "Education",
     "General Financial Advice", "goal planning", "Budgeting"}

\* the lists of at most n label tokens
RECURSIVE LabelLists(_)
LabelLists(n) ==
    IF n = 0 THEN {<<>>}
    ELSE LET shorter == LabelLists(n - 1)
         IN  shorter \cup {Append(ls, token) :
                              ls \in {l \in shorter : Len(l) = n - 1}, token \in LabelTokens}

ClassifyReplies ==
    {[raises |-> TRUE, marker |-> FALSE, labels |-> <<>>],
     [raises |-> FALSE, marker |-> FALSE, labels |-> <<>>]}
    \cup {[raises |-> FALSE, marker |-> TRUE, labels |-> ls] : ls \in LabelLists(MaxLabels)}

HandlerOutcomes == {"ok", "raise"}

(***************************************************************************)
(* FinancialAdvisorAgent: dispatch and aggregation                         *)
(***************************************************************************)
\* agent_responses is a dict: a list of [cat, kind] in insertion order;
\* assigning to a key already present replaces its value in place
DictHas(d, cat) == \E k \in 1..Len(d) : d[k].cat = cat

DictSet(d, cat, kind) ==
    IF DictHas(d, cat)
    THEN [k \in 1..Len(d) |-> IF d[k].cat = cat THEN [cat |-> cat, kind |-> kind] ELSE d[k]]
    ELSE Append(d, [cat |-> cat, kind |-> kind])

DictGet(d, cat) == (CHOOSE k \in 1..Len(d) : d[k].cat = cat)

\* completion calls one handle_goal_request makes at the sub-intent site
\* (_determine_intent calls _determine_intent_with_llm once, unless the
\* request has no customer id) and at the parameter-extraction site (once
\* in the create and the modify handler, not in the others)
GoalRequestCalls ==
    {[goal_intent |-> 0, param_extraction |-> 0],
     [goal_intent |-> 1, param_extraction |-> 0],
     [goal_intent |-> 1, param_extraction |-> 1]}

\* a goal-focused classification that lets the education handler run too
GoalFocusedWithEducation == <<"Goal Planning", "Education">>

\* a goal-focused classification that keeps the default category as well
GoalFocusedWithAdvice == <<"Goal Planning", "General Financial Advice">>

\* if is_goal_focused: classification = ["Goal Planning"]
GoalFocusedClassification == <<"Goal Planning">>

\* head of _get_agent_responses: Goal Planning is put first for a
\* goal-focused query that lacks it
EnsureGoalFirst(cls, focused) ==
    IF focused /\ ~InSeq("Goal Planning", cls) THEN <<"Goal Planning">> \o cls ELSE cls

\* the except branch of a category's try block: the category's own message
HandlerResult(outcome) == IF outcome = "ok" THEN "content" ELSE "error"

\* _extract_education_topic starts with query.lower()
ExtractEducationTopicRaises(query) == query = None

\* an except clause that passes the exception on to the caller
ProcessQueryReraise(err) ==
    [outcome |-> "raised", text |-> [kind |-> "none"]]

\* the except clause of process_query: the apology with str(e) inlined
ProcessQueryExcept(err) ==
    [outcome |-> "returned", text |-> [kind |-> "apology", err |-> err]]

\* process_query_with_formatting: response is what process_query returned;
\* has_formatting_issues says whether the text holds a formatting indicator
\* and matches one of the five issue patterns; fix is the outcome of the
\* formatting-fix completion call, which is made outside any try block.
\* The apology of process_query holds no indicator.
ProcessQueryWithFormatting(response, has_formatting_issues, fix) ==
    IF response.kind # "apology" /\ has_formatting_issues
    THEN IF fix = "ok"
         THEN [outcome |-> "returned", text |-> [kind |-> "fixed"]]
         ELSE [outcome |-> "raised", text |-> [kind |-> "none"]]
    ELSE [outcome |-> "returned", text |-> response]

\* an aggregation whose except clause gives up instead of concatenating
GenerateFinalResponseNoFallback(cls, responses, synth, follow) ==
    LET follow_ups == IF follow = "ok" THEN "suggestions" ELSE "" IN
    IF Len(responses) = 1
    THEN [text  |-> [kind |-> "single", body |-> responses[1], follow_ups |-> follow_ups],
          calls |-> [synthesis |-> 0, follow_up |-> 1]]
    ELSE IF synth = "ok" /\ cls # <<>>
         THEN [text  |-> [kind |-> "integrated", topic |-> cls[1], follow_ups |-> follow_ups],
               calls |-> [synthesis |-> 1, follow_up |-> 1]]
         ELSE [text  |-> [kind |-> "apology", err |-> "synthesis"],
               calls |-> [synthesis |-> 1, follow_up |-> 0]]

\* _generate_final_response; synth and follow are the outcomes of the
\* synthesis and the follow-up completion calls
GenerateFinalResponse(cls, responses, synth, follow) ==
    LET follow_ups == IF follow = "ok" THEN "suggestions" ELSE "" IN
    IF Len(responses) = 1
    THEN [text  |-> [kind |-> "single", body |-> responses[1], follow_ups |-> follow_ups],
          calls |-> [synthesis |-> 0, follow_up |-> 1]]
    ELSE IF synth = "ok" /\ cls # <<>>
         THEN [text  |-> [kind |-> "integrated", topic |-> cls[1], follow_ups |-> follow_ups],
               calls |-> [synthesis |-> 1, follow_up |-> 1]]
         ELSE [text  |-> [kind |-> "concatenated", blocks |-> responses],
               calls |-> [synthesis |-> 1, follow_up |-> 0]]


(***************************************************************************)
(* Inputs of the regex extractor                                           *)
(***************************************************************************)
\* years of the target dates fed to the extractor
MinYear == 2024

MaxYear == 2025

\* largest count of thousands written as "<n>k"
MaxK == 12

\* str(n) for a natural number
RECURSIVE IntStr(_)
IntStr(n) ==
    IF n < 10 THEN <<DigitChars[n + 1]>>
    ELSE IntStr(n \div 10) \o <<DigitChars[(n % 10) + 1]>>

Pad3(n) == <<DigitChars[(n \div 100) + 1]>> \o Pad2(n % 100)

\* n written with thousands separators
RECURSIVE GroupedStr(_)
GroupedStr(n) ==
    IF n < 1000 THEN IntStr(n)
    ELSE GroupedStr(n \div 1000) \o <<",">> \o Pad3(n % 1000)

\* whole-dollar amounts a user writes after a currency sign
DollarAmounts == {5, 50, 500, 5000, 10000, 25000, 1500000}

\* queries in plain words
Phrases ==
    <<<<"I", " ", "w", "a", "n", "t", " ", "t", "o", " ", "c", "r", "e", "a", "t", "e", " ", "a", "n", " ", "e", "m", "e", "r", "g", "e", "n", "c", "y", " ", "f", "u", "n", "d", " ", "o", "f", " ", "$", "5", "0", "0", "0", " ", "t", "i", "l", "l", " ", "0", "3", "/", "3", "1", "/", "2", "0", "2", "6">>,
      <<"s", "a", "v", "e", " ", "f", "o", "r", " ", "c", "a", "r">>,
      <<"r", "e", "t", "i", "r", "e", "m", "e", "n", "t", " ", "p", "l", "a", "n", " ", "o", "f", " ", "2", " ", "m", "i", "l", "l", "i", "o", "n", " ", "b", "y", " ", "D", "e", "c", "e", "m", "b", "e", "r", " ", "2", "0", "4", "0", " ", "h", "i", "g", "h", " ", "p", "r", "i", "o", "r", "i", "t", "y">>,
      <<"c", "r", "e", "a", "t", "e", " ", "a", " ", "g", "o", "a", "l">>,
      <<"n", "e", "w", " ", "c", "a", "r", " ", "f", "u", "n", "d", " ", "o", "f", " ", "1", "0", ",", "0", "0", "0", " ", "d", "o", "l", "l", "a", "r", "s", " ", "b", "y", " ", "e", "n", "d", " ", "o", "f", " ", "J", "u", "n", "e", " ", "n", "e", "x", "t", " ", "y", "e", "a", "r">>,
      <<"H", "o", "m", "e", " ", "P", "u", "r", "c", "h", "a", "s", "e", " ", "g", "o", "a", "l", " ", "o", "f", " ", "$", "5", "0", ",", "0", "0", "0", " ", "b", "y", " ", "3", "1", "/", "1", "2", "/", "2", "0", "3", "0", ",", " ", "v", "e", "r", "y", " ", "h", "i", "g", "h", " ", "p", "r", "i", "o", "r", "i", "t", "y">>>>

\* what the user wrote: a calendar date as MM/DD/YYYY (mdy) or DD/MM/YYYY
\* (dmy), an amount in one of four notations with its value in hundredths,
\* or the k-th phrase
DateCases ==
    {[kind |-> kind, y |-> y, m |-> m, d |-> d, value |-> 0] :
        kind \in {"mdy", "dmy"}, y \in MinYear..MaxYear, m \in 1..12, d \in 1..31}

ValidDateCases == {c \in DateCases : MkDate(c.y, c.m, c.d).ok}

AmountCase(kind, value) == [kind |-> kind, y |-> 0, m |-> 0, d |-> 0, value |-> value]

AmountCases ==
    {AmountCase("grouped", 100 * n) : n \in DollarAmounts}
    \cup {AmountCase("plain", 100 * n) : n \in DollarAmounts}
    \cup {AmountCase("k", 100000 * n) : n \in 1..MaxK}
    \cup {AmountCase("million", 10000000 * t) : t \in 10..25}

PhraseCases == {AmountCase("phrase", k) : k \in 1..Len(Phrases)}

ExtractCases == ValidDateCases \cup AmountCases \cup PhraseCases

\* the query text of a case: "by 03/31/2026", "by 31/03/2026", "$10,000.00",
\* "$5000", "10k", "1.5 million"
CaseText(c) ==
    CASE c.kind = "mdy" ->
           <<"b", "y", " ">> \o Pad2(c.m) \o <<"/">> \o Pad2(c.d) \o <<"/">> \o IntStr(c.y)
      [] c.kind = "dmy" ->
           <<"b", "y", " ">> \o Pad2(c.d) \o <<"/">> \o Pad2(c.m) \o <<"/">> \o IntStr(c.y)
      [] c.kind = "grouped" ->
           <<"$">> \o GroupedStr(c.value \div 100) \o <<".", "0", "0">>
      [] c.kind = "plain" -> <<"$">> \o IntStr(c.value \div 100)
      [] c.kind = "k" -> IntStr(c.value \div 100000) \o <<"k">>
      [] c.kind = "million" ->
           IntStr(c.value \div 100000000) \o <<".">>
           \o IntStr((c.value \div 10000000) % 10)
           \o <<" ", "m", "i", "l", "l", "i", "o", "n">>
      [] OTHER -> Phrases[c.value]

\* datetime.now(), as year and month
Nows == {[y |-> 2025, m |-> 6], [y |-> 2026, m |-> 12]}

(***************************************************************************)
(* GoalPlanningAgent._handle_create_goal and GoalDataManager.create_goal   *)
(***************************************************************************)
\* most goals the store holds
MaxGoals == 2

general_intent_phrases ==
    {<<"c", "r", "e", "a", "t", "e", " ", "a", " ", "g", "o", "a", "l">>,
     <<"n", "e", "w", " ", "g", "o", "a", "l">>,
     <<"a", "d", "d", " ", "a", " ", "g", "o", "a", "l">>,
     <<"s", "e", "t", " ", "u", "p", " ", "a", " ", "g", "o", "a", "l">>,
     <<"s", "t", "a", "r", "t", " ", "a", " ", "g", "o", "a", "l">>,
     <<"e", "s", "t", "a", "b", "l", "i", "s", "h", " ", "a", " ", "g", "o", "a", "l">>,
     <<"w", "a", "n", "t", " ", "a", " ", "g", "o", "a", "l">>,
     <<"w", "o", "u", "l", "d", " ", "l", "i", "k", "e", " ", "t", "o", " ", "c", "r", "e", "a", "t", "e", " ", "a", " ", "g", "o", "a", "l">>}

\* any(phrase in query.lower() for phrase in [...])
IsGeneralIntent(query) == \E ph \in general_intent_phrases : Contains(Lower(query), ph)

\* _extract_goal_parameters_with_llm.  The response is given as
\* [kind, params]: the call raised, the text has no braces (nojson), the
\* span between the braces does not parse (badjson), or it parses to params;
\* regex_params is what self._extract_goal_parameters(query) returns
ExtractGoalParametersWithLlm(llm, regex_params) ==
    CASE llm.kind = "json"   -> llm.params
      [] llm.kind = "nojson" -> <<>>
      [] OTHER               -> regex_params

\* the two records merged field by field, the LLM's fields first
ExtractedParamsMerged(llm, regex_params) ==
    ExtractGoalParametersWithLlm(llm, regex_params) @@ regex_params

\* if not params or len(params) <= 1: params = self._extract_goal_parameters(query)
ExtractedParams(llm, regex_params) ==
    LET params == ExtractGoalParametersWithLlm(llm, regex_params)
    IN  IF Cardinality(DOMAIN params) <= 1 THEN regex_params ELSE params

required_params == <<"goal_name", "target_amount", "target_date">>

\* a validation that does not ask for the goal name
MissingParamsExceptName(params) ==
    SelectSeq(<<"target_amount", "target_date">>, LAMBDA param : param \notin DOMAIN params)

\* [param for param in required_params if param not in params]
MissingParams(params) ==
    SelectSeq(required_params, LAMBDA param : param \notin DOMAIN params)

\* defaults of the optional parameters
WithDefaults(params) ==
    params
    @@ ("current_savings" :> 0)
    @@ ("priority" :> "Medium")
    @@ (IF "goal_name" \in DOMAIN params THEN "goal_type" :> params["goal_name"] ELSE <<>>)

\* the customers of the data set; selected_user is the one of the session
Customers == {<<"U", "1">>, <<"U", "2">>}

selected_user == <<"U", "1">>

\* a numbering by the number of rows
NextGoalIdByCount(store) == Len(store) + 1

\* GoalDataManager.create_goal: the next Goal ID follows the last row's; the
\* target date must parse as %m/%d/%Y; io is the outcome of reading and
\* writing the goals file
NextGoalId(store) == IF store = <<>> THEN 1 ELSE store[Len(store)].goal_id + 1

CreateGoalRaises(params, io) ==
    \/ io = "raise"
    \/ \E key \in {"goal_name", "target_amount", "current_savings", "target_date",
                    "goal_type", "priority"} : key \notin DOMAIN params
    \/ ~StrptimeMDY(params["target_date"]).ok

CreateGoal(store, customer_id, params) ==
    Append(store, [goal_id         |-> NextGoalId(store),
                   customer_id     |-> Lower(customer_id),
                   goal_name       |-> params["goal_name"],
                   target_amount   |-> params["target_amount"],
                   current_savings |-> params["current_savings"],
                   target_date     |-> params["target_date"],
                   goal_type       |-> params["goal_type"],
                   priority        |-> params["priority"]])

\* parameter records a structured-extraction response may carry
EmergencyFund == "Emergency Fund"

ScenarioDate == <<"0", "3", "/", "3", "1", "/", "2", "0", "2", "6">>

LlmParamRecords ==
    {<<>>,
     "goal_type" :> EmergencyFund,
     ("goal_type" :> EmergencyFund) @@ ("target_amount" :> 500000)
        @@ ("target_date" :> ScenarioDate),
     ("goal_type" :> EmergencyFund) @@ ("goal_name" :> EmergencyFund)
        @@ ("target_amount" :> 500000) @@ ("target_date" :> ScenarioDate),
     ("goal_name" :> EmergencyFund) @@ ("target_amount" :> 500000)
        @@ ("target_date" :> ScenarioDate),
     ("goal_name" :> EmergencyFund) @@ ("target_amount" :> 500000)
        @@ ("target_date" :> <<"3", "1", "/", "0", "3", "/", "2", "0", "2", "6">>),
     ("goal_type" :> EmergencyFund) @@ ("target_amount" :> 500000)}

ExtractionReplies ==
    {[kind |-> k, params |-> <<>>] : k \in {"raise", "nojson", "badjson"}}
    \cup {[kind |-> "json", params |-> ps] : ps \in LlmParamRecords}

GoalQueries == {Phrases[1], Phrases[2], Phrases[4]}

(***************************************************************************)
(* GoalPlanningAgent._determine_intent                                     *)
(***************************************************************************)
valid_intents ==
    <<"create_goal", "modify_goal", "delete_goal", "goal_status", "goal_recommendations", "general_goal_query">>

\* the intents as text
IntentText ==
    [create_goal |-> <<"c", "r", "e", "a", "t", "e", "_", "g", "o", "a", "l">>,
     modify_goal |-> <<"m", "o", "d", "i", "f", "y", "_", "g", "o", "a", "l">>,
     delete_goal |-> <<"d", "e", "l", "e", "t", "e", "_", "g", "o", "a", "l">>,
     goal_status |-> <<"g", "o", "a", "l", "_", "s", "t", "a", "t", "u", "s">>,
     goal_recommendations |-> <<"g", "o", "a", "l", "_", "r", "e", "c", "o", "m", "m", "e", "n", "d", "a", "t", "i", "o", "n", "s">>,
     general_goal_query |-> <<"g", "e", "n", "e", "r", "a", "l", "_", "g", "o", "a", "l", "_", "q", "u", "e", "r", "y">>]

\* no intent: the None of _determine_intent_with_llm
NoIntent == "None"

\* _determine_intent_with_llm: the first of valid_intents contained in the
\* stripped, lower-cased reply; None when there is none or the call raised
DetermineIntentWithLlm(llm) ==
    IF llm.raises THEN NoIntent
    ELSE LET intent_response == Lower(Strip(llm.text))
             hits == {k \in 1..Len(valid_intents) :
                        Contains(intent_response, IntentText[valid_intents[k]])}
         IN  IF hits = {} THEN NoIntent
             ELSE valid_intents[CHOOSE k \in hits : \A j \in hits : k <= j]

\* _determine_intent_with_regex: the pattern lists
create_patterns ==
    <<Cat(<<Lit(<<"c", "r", "e", "a", "t", "e", " ">>), Alt(<<Lit(<<"a", " ">>), Lit(<<"n", "e", "w", " ">>), Lit(<<>>)>>), Lit(<<"g", "o", "a", "l">>)>>),
      Cat(<<Lit(<<"s", "e", "t", " ", "u", "p", " ">>), Alt(<<Lit(<<"a", " ">>), Lit(<<"n", "e", "w", " ">>), Lit(<<>>)>>), Lit(<<"g", "o", "a", "l">>)>>),
      Cat(<<Lit(<<"s", "t", "a", "r", "t", " ">>), Alt(<<Lit(<<"a", " ">>), Lit(<<"n", "e", "w", " ">>), Lit(<<>>)>>), Lit(<<"g", "o", "a", "l">>)>>),
      Cat(<<Lit(<<"e", "s", "t", "a", "b", "l", "i", "s", "h", " ">>), Alt(<<Lit(<<"a", " ">>), Lit(<<"n", "e", "w", " ">>), Lit(<<>>)>>), Lit(<<"g", "o", "a", "l">>)>>),
      Cat(<<Lit(<<"a", "d", "d", " ">>), Alt(<<Lit(<<"a", " ">>), Lit(<<"n", "e", "w", " ">>), Lit(<<>>)>>), Lit(<<"g", "o", "a", "l">>)>>),
      Cat(<<Lit(<<"b", "e", "g", "i", "n", " ">>), Alt(<<Lit(<<"a", " ">>), Lit(<<"n", "e", "w", " ">>), Lit(<<>>)>>), Lit(<<"g", "o", "a", "l">>)>>),
      Cat(<<Lit(<<"w", "a", "n", "t", " ">>), Alt(<<Lit(<<"a", " ">>), Lit(<<"t", "o", " ", "c", "r", "e", "a", "t", "e", " ", "a", " ">>), Lit(<<"t", "o", " ", "s", "e", "t", " ", "u", "p", " ", "a", " ">>), Lit(<<"t", "o", " ", "e", "s", "t", "a", "b", "l", "i", "s", "h", " ", "a", " ">>), Lit(<<>>)>>), Alt(<<Lit(<<"n", "e", "w", " ">>), Lit(<<>>)>>), Lit(<<"g", "o", "a", "l">>)>>),
      Cat(<<Lit(<<"h", "e", "l", "p", " ">>), Alt(<<Lit(<<"m", "e", " ">>), Lit(<<"u", "s", " ">>), Lit(<<>>)>>), Alt(<<Lit(<<"t", "o", " ">>), Lit(<<>>)>>), Lit(<<"c", "r", "e", "a", "t", "e", " ">>), Alt(<<Lit(<<"a", " ">>), Lit(<<"n", "e", "w", " ">>), Lit(<<>>)>>), Lit(<<"g", "o", "a", "l">>)>>),
      Cat(<<Lit(<<"h", "e", "l", "p", " ">>), Alt(<<Lit(<<"m", "e", " ">>), Lit(<<"u", "s", " ">>), Lit(<<>>)>>), Alt(<<Lit(<<"t", "o", " ">>), Lit(<<>>)>>), Lit(<<"s", "e", "t", " ", "u", "p", " ">>), Alt(<<Lit(<<"a", " ">>), Lit(<<"n", "e", "w", " ">>), Lit(<<>>)>>), Lit(<<"g", "o", "a", "l">>)>>),
      Cat(<<Lit(<<"h", "e", "l", "p", " ">>), Alt(<<Lit(<<"m", "e", " ">>), Lit(<<"u", "s", " ">>), Lit(<<>>)>>), Alt(<<Lit(<<"t", "o", " ">>), Lit(<<>>)>>), Lit(<<"e", "s", "t", "a", "b", "l", "i", "s", "h", " ">>), Alt(<<Lit(<<"a", " ">>), Lit(<<"n", "e", "w", " ">>), Lit(<<>>)>>), Lit(<<"g", "o", "a", "l">>)>>),
      Cat(<<Alt(<<Lit(<<"c", "a", "n", " ", "y", "o", "u", " ">>), Lit(<<"c", "o", "u", "l", "d", " ", "y", "o", "u", " ">>), Lit(<<"w", "o", "u", "l", "d", " ", "y", "o", "u", " ">>), Lit(<<>>)>>), Lit(<<"h", "e", "l", "p", " ">>), Alt(<<Lit(<<"m", "e", " ">>), Lit(<<"u", "s", " ">>), Lit(<<>>)>>), Alt(<<Lit(<<"t", "o", " ">>), Lit(<<>>)>>), Lit(<<"c", "r", "e", "a", "t", "e", " ">>), Alt(<<Lit(<<"a", " ">>), Lit(<<"n", "e", "w", " ">>), Lit(<<>>)>>), Lit(<<"g", "o", "a", "l">>)>>),
      Cat(<<Lit(<<"a", "s", "s", "i", "s", "t", " ">>), Alt(<<Lit(<<"m", "e", " ">>), Lit(<<"u", "s", " ">>), Lit(<<>>)>>), Alt(<<Lit(<<"i", "n", " ">>), Lit(<<"w", "i", "t", "h", " ">>), Lit(<<>>)>>), Alt(<<Lit(<<"c", "r", "e", "a", "t", "i", "n", "g", " ">>), Lit(<<"s", "e", "t", "t", "i", "n", "g", " ", "u", "p">>)>>), Lit(<<" ">>), Alt(<<Lit(<<"a", " ">>), Lit(<<"n", "e", "w", " ">>), Lit(<<>>)>>), Lit(<<"g", "o", "a", "l">>)>>),
      Cat(<<Alt(<<Lit(<<"c", "r", "e", "a", "t", "e">>), Lit(<<"s", "e", "t", " ", "u", "p">>), Lit(<<"e", "s", "t", "a", "b", "l", "i", "s", "h">>), Lit(<<"s", "t", "a", "r", "t">>)>>), Lit(<<" ">>), Alt(<<Lit(<<"a", " ">>), Lit(<<"a", "n", " ">>), Lit(<<>>)>>), Alt(<<Lit(<<"n", "e", "w", " ">>), Lit(<<>>)>>), Lit(<<"e", "m", "e", "r", "g", "e", "n", "c", "y", " ", "f", "u", "n", "d">>)>>),
      Cat(<<Alt(<<Lit(<<"c", "r", "e", "a", "t", "e">>), Lit(<<"s", "e", "t", " ", "u", "p">>), Lit(<<"e", "s", "t", "a", "b", "l", "i", "s", "h">>), Lit(<<"s", "t", "a", "r", "t">>)>>), Lit(<<" ">>), Alt(<<Lit(<<"a", " ">>), Lit(<<"a", "n", " ">>), Lit(<<>>)>>), Alt(<<Lit(<<"n", "e", "w", " ">>), Lit(<<>>)>>), Lit(<<"r", "e", "t", "i", "r", "e", "m", "e", "n", "t", " ">>), Alt(<<Lit(<<"g", "o", "a", "l">>), Lit(<<"f", "u", "n", "d">>), Lit(<<"a", "c", "c", "o", "u", "n", "t">>), Lit(<<"p", "l", "a", "n">>)>>)>>),
      Cat(<<Alt(<<Lit(<<"c", "r", "e", "a", "t", "e">>), Lit(<<"s", "e", "t", " ", "u", "p">>), Lit(<<"e", "s", "t", "a", "b", "l", "i", "s", "h">>), Lit(<<"s", "t", "a", "r", "t">>)>>), Lit(<<" ">>), Alt(<<Lit(<<"a", " ">>), Lit(<<"a", "n", " ">>), Lit(<<>>)>>), Alt(<<Lit(<<"n", "e", "w", " ">>), Lit(<<>>)>>), Lit(<<"e", "d", "u", "c", "a", "t", "i", "o", "n", " ">>), Alt(<<Lit(<<"g", "o", "a", "l">>), Lit(<<"f", "u", "n", "d">>), Lit(<<"a", "c", "c", "o", "u", "n", "t">>), Lit(<<"p", "l", "a", "n">>)>>)>>),
      Cat(<<Alt(<<Lit(<<"c", "r", "e", "a", "t", "e">>), Lit(<<"s", "e", "t", " ", "u", "p">>), Lit(<<"e", "s", "t", "a", "b", "l", "i", "s", "h">>), Lit(<<"s", "t", "a", "r", "t">>)>>), Lit(<<" ">>), Alt(<<Lit(<<"a", " ">>), Lit(<<"a", "n", " ">>), Lit(<<>>)>>), Alt(<<Lit(<<"n", "e", "w", " ">>), Lit(<<>>)>>), Lit(<<"h", "o", "m", "e", " ", "p", "u", "r", "c", "h", "a", "s", "e", " ">>), Alt(<<Lit(<<"g", "o", "a", "l">>), Lit(<<"f", "u", "n", "d">>), Lit(<<"p", "l", "a", "n">>)>>)>>),
      Cat(<<Alt(<<Lit(<<"w", "a", "n", "t", " ", "t", "o">>), Lit(<<"n", "e", "e", "d", " ", "t", "o">>), Lit(<<"w", "o", "u", "l", "d", " ", "l", "i", "k", "e", " ", "t", "o">>)>>), Lit(<<" ", "s", "a", "v", "e", " ">>), Alt(<<Lit(<<"m", "o", "n", "e", "y", " ">>), Lit(<<"f", "u", "n", "d", "s", " ">>), Lit(<<>>)>>), Lit(<<"f", "o", "r", " ">>), Alt(<<Lit(<<"a", " ">>), Lit(<<"a", "n", " ">>), Lit(<<"m", "y", " ">>), Lit(<<>>)>>)>>),
      Cat(<<Alt(<<Lit(<<"w", "a", "n", "t", " ", "t", "o">>), Lit(<<"n", "e", "e", "d", " ", "t", "o">>), Lit(<<"w", "o", "u", "l", "d", " ", "l", "i", "k", "e", " ", "t", "o">>)>>), Lit(<<" ", "s", "t", "a", "r", "t", " ", "s", "a", "v", "i", "n", "g", " ", "f", "o", "r", " ">>), Alt(<<Lit(<<"a", " ">>), Lit(<<"a", "n", " ">>), Lit(<<"m", "y", " ">>), Lit(<<>>)>>)>>)>>

\* direct mentions of a goal type
goal_type_indicators ==
    <<<<"e", "m", "e", "r", "g", "e", "n", "c", "y", " ", "f", "u", "n", "d">>,
      <<"r", "e", "t", "i", "r", "e", "m", "e", "n", "t">>,
      <<"e", "d", "u", "c", "a", "t", "i", "o", "n", " ", "f", "u", "n", "d">>,
      <<"c", "o", "l", "l", "e", "g", "e", " ", "f", "u", "n", "d">>,
      <<"h", "o", "m", "e", " ", "p", "u", "r", "c", "h", "a", "s", "e">>,
      <<"h", "o", "u", "s", "e", " ", "f", "u", "n", "d">>,
      <<"d", "o", "w", "n", " ", "p", "a", "y", "m", "e", "n", "t">>,
      <<"t", "r", "a", "v", "e", "l", " ", "f", "u", "n", "d">>,
      <<"v", "a", "c", "a", "t", "i", "o", "n", " ", "f", "u", "n", "d">>,
      <<"c", "a", "r", " ", "f", "u", "n", "d">>,
      <<"v", "e", "h", "i", "c", "l", "e", " ", "f", "u", "n", "d">>,
      <<"w", "e", "d", "d", "i", "n", "g", " ", "f", "u", "n", "d">>,
      <<"m", "e", "d", "i", "c", "a", "l", " ", "f", "u", "n", "d">>,
      <<"h", "e", "a", "l", "t", "h", " ", "f", "u", "n", "d">>>>

modify_patterns ==
    <<Cat(<<Lit(<<"m", "o", "d", "i", "f", "y", " ">>), Alt(<<Lit(<<"m", "y", " ">>), Lit(<<"t", "h", "e", " ">>), Lit(<<>>)>>), Lit(<<"g", "o", "a", "l">>)>>),
      Cat(<<Lit(<<"u", "p", "d", "a", "t", "e", " ">>), Alt(<<Lit(<<"m", "y", " ">>), Lit(<<"t", "h", "e", " ">>), Lit(<<>>)>>), Lit(<<"g", "o", "a", "l">>)>>),
      Cat(<<Lit(<<"c", "h", "a", "n", "g", "e", " ">>), Alt(<<Lit(<<"m", "y", " ">>), Lit(<<"t", "h", "e", " ">>), Lit(<<>>)>>), Lit(<<"g", "o", "a", "l">>)>>),
      Cat(<<Lit(<<"a", "d", "j", "u", "s", "t", " ">>), Alt(<<Lit(<<"m", "y", " ">>), Lit(<<"t", "h", "e", " ">>), Lit(<<>>)>>), Lit(<<"g", "o", "a", "l">>)>>),
      Cat(<<Lit(<<"e", "d", "i", "t", " ">>), Alt(<<Lit(<<"m", "y", " ">>), Lit(<<"t", "h", "e", " ">>), Lit(<<>>)>>), Lit(<<"g", "o", "a", "l">>)>>),
      Cat(<<Lit(<<"i", "n", "c", "r", "e", "a", "s", "e", " ">>), Alt(<<Lit(<<"m", "y", " ">>), Lit(<<"t", "h", "e", " ">>), Lit(<<>>)>>), Lit(<<"g", "o", "a", "l">>)>>),
      Cat(<<Lit(<<"d", "e", "c", "r", "e", "a", "s", "e", " ">>), Alt(<<Lit(<<"m", "y", " ">>), Lit(<<"t", "h", "e", " ">>), Lit(<<>>)>>), Lit(<<"g", "o", "a", "l">>)>>)>>

delete_patterns ==
    <<Cat(<<Lit(<<"d", "e", "l", "e", "t", "e", " ">>), Alt(<<Lit(<<"m", "y", " ">>), Lit(<<"t", "h", "e", " ">>), Lit(<<>>)>>), Lit(<<"g", "o", "a", "l">>)>>),
      Cat(<<Lit(<<"r", "e", "m", "o", "v", "e", " ">>), Alt(<<Lit(<<"m", "y", " ">>), Lit(<<"t", "h", "e", " ">>), Lit(<<>>)>>), Lit(<<"g", "o", "a", "l">>)>>),
      Cat(<<Lit(<<"c", "a", "n", "c", "e", "l", " ">>), Alt(<<Lit(<<"m", "y", " ">>), Lit(<<"t", "h", "e", " ">>), Lit(<<>>)>>), Lit(<<"g", "o", "a", "l">>)>>),
      Cat(<<Lit(<<"g", "e", "t", " ", "r", "i", "d", " ", "o", "f", " ">>), Alt(<<Lit(<<"m", "y", " ">>), Lit(<<"t", "h", "e", " ">>), Lit(<<>>)>>), Lit(<<"g", "o", "a", "l">>)>>)>>

status_patterns ==
    <<Cat(<<Lit(<<"s", "t", "a", "t", "u", "s", " ", "o", "f", " ">>), Alt(<<Lit(<<"m", "y", " ">>), Lit(<<"t", "h", "e", " ">>), Lit(<<>>)>>), Lit(<<"g", "o", "a", "l">>)>>),
      Cat(<<Lit(<<"p", "r", "o", "g", "r", "e", "s", "s", " ">>), Alt(<<Lit(<<"o", "n">>), Lit(<<"o", "f">>)>>), Lit(<<" ">>), Alt(<<Lit(<<"m", "y", " ">>), Lit(<<"t", "h", "e", " ">>), Lit(<<>>)>>), Lit(<<"g", "o", "a", "l">>)>>),
      Cat(<<Lit(<<"h", "o", "w", " ">>), Alt(<<Lit(<<"a", "m", " ", "I">>), Lit(<<"a", "r", "e", " ", "w", "e">>)>>), Lit(<<" ", "d", "o", "i", "n", "g", " ">>), Alt(<<Lit(<<"o", "n">>), Lit(<<"w", "i", "t", "h">>)>>), Lit(<<" ">>), Alt(<<Lit(<<"m", "y", " ">>), Lit(<<"t", "h", "e", " ">>), Lit(<<>>)>>), Lit(<<"g", "o", "a", "l">>)>>),
      Cat(<<Lit(<<"u", "p", "d", "a", "t", "e", " ">>), Alt(<<Lit(<<"o", "n">>), Lit(<<"a", "b", "o", "u", "t">>)>>), Lit(<<" ">>), Alt(<<Lit(<<"m", "y", " ">>), Lit(<<"t", "h", "e", " ">>), Lit(<<>>)>>), Lit(<<"g", "o", "a", "l">>)>>)>>

recommendation_patterns ==
    <<Cat(<<Lit(<<"r", "e", "c", "o", "m", "m", "e", "n", "d">>), Alt(<<Lit(<<"a", "t", "i", "o", "n", "s">>), Lit(<<>>)>>), Lit(<<" ">>), Alt(<<Lit(<<"f", "o", "r">>), Lit(<<"o", "n">>)>>), Lit(<<" ">>), Alt(<<Lit(<<"m", "y", " ">>), Lit(<<"t", "h", "e", " ">>), Lit(<<>>)>>), Lit(<<"g", "o", "a", "l">>)>>),
      Cat(<<Lit(<<"a", "d", "v", "i", "c", "e", " ">>), Alt(<<Lit(<<"f", "o", "r">>), Lit(<<"o", "n">>)>>), Lit(<<" ">>), Alt(<<Lit(<<"m", "y", " ">>), Lit(<<"t", "h", "e", " ">>), Lit(<<>>)>>), Lit(<<"g", "o", "a", "l">>)>>),
      Cat(<<Lit(<<"s", "u", "g", "g", "e", "s", "t", "i", "o", "n", "s", " ">>), Alt(<<Lit(<<"f", "o", "r">>), Lit(<<"o", "n">>)>>), Lit(<<" ">>), Alt(<<Lit(<<"m", "y", " ">>), Lit(<<"t", "h", "e", " ">>), Lit(<<>>)>>), Lit(<<"g", "o", "a", "l">>)>>),
      Cat(<<Lit(<<"h", "o", "w", " ">>), Alt(<<Lit(<<"c", "a", "n">>), Lit(<<"s", "h", "o", "u", "l", "d">>)>>), Lit(<<" ", "I", " ">>), Alt(<<Lit(<<"i", "m", "p", "r", "o", "v", "e">>), Lit(<<"o", "p", "t", "i", "m", "i", "z", "e">>)>>), Lit(<<" ">>), Alt(<<Lit(<<"m", "y", " ">>), Lit(<<"t", "h", "e", " ">>), Lit(<<>>)>>), Lit(<<"g", "o", "a", "l">>)>>)>>

creation_terms ==
    <<<<"c", "r", "e", "a", "t", "e">>,
      <<"n", "e", "w">>,
      <<"s", "e", "t", " ", "u", "p">>,
      <<"e", "s", "t", "a", "b", "l", "i", "s", "h">>,
      <<"s", "t", "a", "r", "t">>,
      <<"a", "d", "d">>,
      <<"b", "e", "g", "i", "n">>,
      <<"h", "e", "l", "p">>,
      <<"a", "s", "s", "i", "s", "t">>>>

\* any(re.search(pattern, s) for pattern in patterns)
AnyPattern(patterns, s) == \E k \in 1..Len(patterns) : Search(patterns[k], s).found

\* query_lower.startswith(prefix)
StartsWith(s, prefix) == Len(s) >= Len(prefix) /\ SubSeq(s, 1, Len(prefix)) = prefix

\* _determine_intent_with_regex: the intent, and the rule that gave it
DetermineIntentWithRegex(query) ==
    LET query_lower == Lower(query)
    IN  IF \E k \in 1..Len(goal_type_indicators) :
              \/ StartsWith(query_lower, goal_type_indicators[k])
              \/ Contains(query_lower, <<"n", "e", "w", " ">> \o goal_type_indicators[k])
        THEN [intent |-> "create_goal", by |-> "indicator"]
        ELSE IF AnyPattern(create_patterns, query_lower)
        THEN [intent |-> "create_goal", by |-> "pattern"]
        ELSE IF AnyPattern(modify_patterns, query_lower)
        THEN [intent |-> "modify_goal", by |-> "pattern"]
        ELSE IF AnyPattern(delete_patterns, query_lower)
        THEN [intent |-> "delete_goal", by |-> "pattern"]
        ELSE IF AnyPattern(status_patterns, query_lower)
        THEN [intent |-> "goal_status", by |-> "pattern"]
        ELSE IF AnyPattern(recommendation_patterns, query_lower)
        THEN [intent |-> "goal_recommendations", by |-> "pattern"]
        ELSE IF /\ Contains(query_lower, <<"g", "o", "a", "l">>)
                /\ \E k \in 1..Len(creation_terms) : Contains(query_lower, creation_terms[k])
        THEN [intent |-> "create_goal", by |-> "creation_terms"]
        ELSE [intent |-> "general_goal_query", by |-> "default"]

\* an intent choice that hands on whatever the LLM pass gave
DetermineIntentLlmOnly(llm_intent, regex_intent) == llm_intent

\* _determine_intent: the LLM's intent if it gave one, else the regex one
DetermineIntent(llm_intent, regex_intent) ==
    IF llm_intent # NoIntent THEN llm_intent ELSE regex_intent

\* requests a user sends to the goal planner
RequestQueries ==
    {<<"I", " ", "w", "a", "n", "t", " ", "t", "o", " ", "c", "r", "e", "a", "t", "e", " ", "a", "n", " ", "e", "m", "e", "r", "g", "e", "n", "c", "y", " ", "f", "u", "n", "d", " ", "o", "f", " ", "$", "5", "0", "0", "0", " ", "t", "i", "l", "l", " ", "0", "3", "/", "3", "1", "/", "2", "0", "2", "6">>,
     <<"u", "p", "d", "a", "t", "e", " ", "m", "y", " ", "g", "o", "a", "l", " ", "G", "O", "A", "L", "1", " ", "t", "o", " ", "$", "6", "0", "0", "0">>,
     <<"d", "e", "l", "e", "t", "e", " ", "m", "y", " ", "g", "o", "a", "l", " ", "G", "O", "A", "L", "2">>,
     <<"r", "e", "m", "o", "v", "e", " ", "m", "y", " ", "n", "e", "w", " ", "c", "a", "r", " ", "g", "o", "a", "l">>,
     <<"w", "h", "a", "t", " ", "i", "s", " ", "t", "h", "e", " ", "s", "t", "a", "t", "u", "s", " ", "o", "f", " ", "m", "y", " ", "g", "o", "a", "l">>,
     <<"a", "n", "y", " ", "a", "d", "v", "i", "c", "e", " ", "o", "n", " ", "m", "y", " ", "g", "o", "a", "l", "s">>,
     <<"h", "o", "w", " ", "d", "o", " ", "g", "o", "a", "l", "s", " ", "w", "o", "r", "k">>,
     <<"a", "d", "d", " ", "m", "o", "n", "e", "y", " ", "t", "o", " ", "m", "y", " ", "g", "o", "a", "l">>}

\* replies of the intent completion call
IntentReplies ==
    {Raise} \cup {Reply(<<"c", "r", "e", "a", "t", "e", "_", "g", "o", "a", "l">>),
                 Reply(<<" ", "M", "o", "d", "i", "f", "y", "_", "G", "o", "a", "l", "\n">>),
                 Reply(<<"d", "e", "l", "e", "t", "e", "_", "g", "o", "a", "l">>),
                 Reply(<<"g", "o", "a", "l", "_", "s", "t", "a", "t", "u", "s">>),
                 Reply(<<"g", "o", "a", "l", "_", "r", "e", "c", "o", "m", "m", "e", "n", "d", "a", "t", "i", "o", "n", "s">>),
                 Reply(<<"m", "o", "d", "i", "f", "y", "_", "g", "o", "a", "l", ",", " ", "n", "o", "t", " ", "c", "r", "e", "a", "t", "e", "_", "g", "o", "a", "l">>),
                 Reply(<<"I", " ", "a", "m", " ", "n", "o", "t", " ", "s", "u", "r", "e">>)}

(***************************************************************************)
(* GoalDataManager: the goals file.  A Goal ID "GOAL<n>" is modelled by n; *)
(* 0 stands for a string that does not start with "GOAL".  The derived     *)
(* columns (timeline, progress, last updated) are not modelled.            *)
(***************************************************************************)
\* largest Goal ID handed out
MaxGoalId == 3

\* the keys of column_mapping in update_goal
column_mapping ==
    {"goal_type", "goal_name", "target_amount", "current_savings", "target_date",
     "monthly_contribution", "priority", "progress_percentage"}

\* any(df['Goal ID'] == goal_id)
GoalExists(store, goal_id) == \E k \in 1..Len(store) : store[k].goal_id = goal_id

\* df[df['Goal ID'] == goal_id]; None when empty
GetGoalById(store, goal_id) ==
    IF \E k \in 1..Len(store) : store[k].goal_id = goal_id
    THEN store[CHOOSE k \in 1..Len(store) :
                  /\ store[k].goal_id = goal_id
                  /\ \A j \in 1..(k - 1) : store[j].goal_id # goal_id]
    ELSE None

\* df[df['Customer ID'] == customer_id]
GetUserGoals(store, customer_id) ==
    SelectSeq(store, LAMBDA row : row.customer_id = customer_id)

\* for key, value in kwargs.items(): a key outside column_mapping, or one
\* whose column the frame lacks, changes nothing
ApplyUpdates(row, kwargs) ==
    [f \in DOMAIN row |->
        IF f \in DOMAIN kwargs /\ f \in column_mapping /\ f # "goal_id" /\ f # "customer_id"
        THEN kwargs[f] ELSE row[f]]

\* update_goal: [ret, store]; every exception gives False.  Read back in
\* the same call, the written values compare equal, so the verification
\* passes
UpdateGoal(store, goal_id, kwargs, io) ==
    IF \/ io = "raise"
       \/ goal_id = 0
       \/ \A k \in 1..Len(store) : store[k].goal_id # goal_id
    THEN [ret |-> FALSE, store |-> store]
    ELSE [ret   |-> TRUE,
          store |-> [k \in 1..Len(store) |->
                       IF store[k].goal_id = goal_id
                       THEN ApplyUpdates(store[k], kwargs) ELSE store[k]]]

\* delete_goal: df = df[~goal_mask]
DeleteGoal(store, goal_id, io) ==
    IF \/ io = "raise"
       \/ goal_id = 0
       \/ \A k \in 1..Len(store) : store[k].goal_id # goal_id
    THEN [ret |-> FALSE, store |-> store]
    ELSE [ret   |-> TRUE,
          store |-> SelectSeq(store, LAMBDA row : row.goal_id # goal_id)]

\* contribute_to_goal: update_goal(goal_id, Current_Savings=new_savings)
ContributeToGoal(store, goal_id, amount, io) ==
    IF amount <= 0 \/ ~GoalExists(store, goal_id)
    THEN [ret |-> FALSE, store |-> store]
    ELSE UpdateGoal(store, goal_id,
                    "Current_Savings" :> (GetGoalById(store, goal_id).current_savings + amount),
                    io)

\* a write that keeps the rows the file holds and the frame lacks
ToCsvKeepingRows(df, file) ==
    df \o SelectSeq(file, LAMBDA row : \A k \in 1..Len(df) : df[k].goal_id # row.goal_id)

\* df.to_csv(self.goals_file, index=False): the file becomes the frame
ToCsv(df, file) == df

\* the parameters of the goals the store calls create
StoreParams ==
    WithDefaults(("goal_name" :> EmergencyFund) @@ ("target_amount" :> 500000)
                 @@ ("target_date" :> ScenarioDate))

\* keyword arguments of update_goal
UpdateKwargs ==
    {("current_savings" :> 10000) @@ ("target_amount" :> 250000)}

\* amounts of contribute_to_goal, in hundredths
ContributionAmounts == {-5000, 0, 5000}

GoalIdArgs == 0..MaxGoalId

\* the request cycles that write the goals file at the same time
Cycles == {1, 2}

(***************************************************************************)
(* GoalPlanningAgent.handle_goal_request and its handlers.  A handler is   *)
(* given the goals file, the request (the query, the parameters the regex  *)
(* extractor finds in it and the goal _extract_goal_id finds for it), the  *)
(* customer and the outcomes of the calls it makes: llm is the             *)
(* structured-extraction reply, io the outcome                             *)
(* of the GoalDataManager call, readback that of reading the created goal  *)
(* back, text the reply of the completion call that words the answer.  It  *)
(* yields the goals file afterwards and the response, or raises.           *)
(***************************************************************************)
\* the fixed sentences of the responses
ResponseText ==
    [guidance |-> <<"I", "'", "d", " ", "b", "e", " ", "h", "a", "p", "p", "y", " ", "t", "o", " ", "h", "e", "l", "p", " ", "y", "o", "u", " ", "c", "r", "e", "a", "t", "e", " ", "y", "o", "u", "r", " ", "f", "i", "r", "s", "t", " ", "f", "i", "n", "a", "n", "c", "i", "a", "l", " ", "g", "o", "a", "l", "!">>,
     missing |-> <<"T", "h", "a", "n", "k", "s", " ", "f", "o", "r", " ", "s", "t", "a", "r", "t", "i", "n", "g", " ", "t", "o", " ", "c", "r", "e", "a", "t", "e", " ", "a", " ", "f", "i", "n", "a", "n", "c", "i", "a", "l", " ", "g", "o", "a", "l", "!">>,
     create_error |-> <<"I", " ", "a", "p", "o", "l", "o", "g", "i", "z", "e", ",", " ", "b", "u", "t", " ", "I", " ", "c", "o", "u", "l", "d", "n", "'", "t", " ", "c", "r", "e", "a", "t", "e", " ", "y", "o", "u", "r", " ", "g", "o", "a", "l", " ", "a", "t", " ", "t", "h", "i", "s", " ", "t", "i", "m", "e", ".">>,
     created |-> <<"G", "o", "a", "l", " ", "s", "u", "c", "c", "e", "s", "s", "f", "u", "l", "l", "y", " ", "c", "r", "e", "a", "t", "e", "d", "!">>,
     processed |-> <<"P", "l", "e", "a", "s", "e", " ", "c", "h", "e", "c", "k", " ", "y", "o", "u", "r", " ", "g", "o", "a", "l", "s", " ", "l", "i", "s", "t", " ", "t", "o", " ", "v", "e", "r", "i", "f", "y", " ", "i", "t", " ", "w", "a", "s", " ", "c", "r", "e", "a", "t", "e", "d", " ", "s", "u", "c", "c", "e", "s", "s", "f", "u", "l", "l", "y", ",", " ", "o", "r", " ", "t", "r", "y", " ", "a", "g", "a", "i", "n", " ", "i", "f", " ", "n", "e", "e", "d", "e", "d", ".">>,
     which_goal_modify |-> <<"I", "'", "m", " ", "n", "o", "t", " ", "s", "u", "r", "e", " ", "w", "h", "i", "c", "h", " ", "g", "o", "a", "l", " ", "y", "o", "u", " ", "w", "a", "n", "t", " ", "t", "o", " ", "m", "o", "d", "i", "f", "y", ".", " ", "P", "l", "e", "a", "s", "e", " ", "s", "p", "e", "c", "i", "f", "y", " ", "t", "h", "e", " ", "g", "o", "a", "l", " ", "n", "a", "m", "e", " ", "o", "r", " ", "I", "D", ".">>,
     which_goal_delete |-> <<"I", "'", "m", " ", "n", "o", "t", " ", "s", "u", "r", "e", " ", "w", "h", "i", "c", "h", " ", "g", "o", "a", "l", " ", "y", "o", "u", " ", "w", "a", "n", "t", " ", "t", "o", " ", "d", "e", "l", "e", "t", "e", ".", " ", "P", "l", "e", "a", "s", "e", " ", "s", "p", "e", "c", "i", "f", "y", " ", "t", "h", "e", " ", "g", "o", "a", "l", " ", "n", "a", "m", "e", " ", "o", "r", " ", "I", "D", ".">>,
     not_found |-> <<"I", " ", "c", "o", "u", "l", "d", "n", "'", "t", " ", "f", "i", "n", "d", " ", "a", " ", "g", "o", "a", "l", " ", "w", "i", "t", "h", " ", "I", "D">>,
     no_changes |-> <<"b", "u", "t", " ", "I", "'", "m", " ", "n", "o", "t", " ", "s", "u", "r", "e", " ", "w", "h", "a", "t", " ", "c", "h", "a", "n", "g", "e", "s", " ", "y", "o", "u", " ", "w", "a", "n", "t", " ", "t", "o", " ", "m", "a", "k", "e", ".">>,
     update_error |-> <<"T", "h", "e", "r", "e", " ", "w", "a", "s", " ", "a", "n", " ", "e", "r", "r", "o", "r", " ", "u", "p", "d", "a", "t", "i", "n", "g", " ", "y", "o", "u", "r", " ", "E", "m", "e", "r", "g", "e", "n", "c", "y", " ", "F", "u", "n", "d", " ", "g", "o", "a", "l", ".">>,
     updated |-> <<"Y", "o", "u", "r", " ", "E", "m", "e", "r", "g", "e", "n", "c", "y", " ", "F", "u", "n", "d", " ", "g", "o", "a", "l", " ", "h", "a", "s", " ", "b", "e", "e", "n", " ", "s", "u", "c", "c", "e", "s", "s", "f", "u", "l", "l", "y", " ", "u", "p", "d", "a", "t", "e", "d", ".">>,
     delete_error |-> <<"T", "h", "e", "r", "e", " ", "w", "a", "s", " ", "a", "n", " ", "e", "r", "r", "o", "r", " ", "d", "e", "l", "e", "t", "i", "n", "g", " ", "y", "o", "u", "r", " ", "E", "m", "e", "r", "g", "e", "n", "c", "y", " ", "F", "u", "n", "d", " ", "g", "o", "a", "l", ".">>,
     deleted |-> <<"Y", "o", "u", "r", " ", "E", "m", "e", "r", "g", "e", "n", "c", "y", " ", "F", "u", "n", "d", " ", "g", "o", "a", "l", " ", "h", "a", "s", " ", "b", "e", "e", "n", " ", "s", "u", "c", "c", "e", "s", "s", "f", "u", "l", "l", "y", " ", "d", "e", "l", "e", "t", "e", "d", ".", " ", "I", "f", " ", "y", "o", "u", " ", "e", "v", "e", "r", " ", "w", "a", "n", "t", " ", "t", "o", " ", "c", "r", "e", "a", "t", "e", " ", "a", " ", "n", "e", "w", " ", "g", "o", "a", "l", ",", " ", "j", "u", "s", "t", " ", "l", "e", "t", " ", "m", "e", " ", "k", "n", "o", "w", "!">>,
     no_goals |-> <<"Y", "o", "u", " ", "d", "o", "n", "'", "t", " ", "h", "a", "v", "e", " ", "a", "n", "y", " ", "f", "i", "n", "a", "n", "c", "i", "a", "l", " ", "g", "o", "a", "l", "s", " ", "s", "e", "t", " ", "u", "p", " ", "y", "e", "t", ".", " ", "W", "o", "u", "l", "d", " ", "y", "o", "u", " ", "l", "i", "k", "e", " ", "t", "o", " ", "c", "r", "e", "a", "t", "e", " ", "o", "n", "e", "?">>,
     status_summary |-> <<"H", "e", "r", "e", "'", "s", " ", "t", "h", "e", " ", "s", "t", "a", "t", "u", "s", " ", "o", "f", " ", "a", "l", "l", " ", "y", "o", "u", "r", " ", "f", "i", "n", "a", "n", "c", "i", "a", "l", " ", "g", "o", "a", "l", "s", ":">>]

\* texts of the completion service
LlmTexts ==
    {<<"Y", "o", "u", " ", "a", "r", "e", " ", "o", "n", " ", "t", "r", "a", "c", "k", ".">>,
     <<"Y", "o", "u", " ", "h", "a", "v", "e", " ", "s", "u", "c", "c", "e", "s", "s", "f", "u", "l", "l", "y", " ", "r", "e", "a", "c", "h", "e", "d", " ", "h", "a", "l", "f", " ", "o", "f", " ", "y", "o", "u", "r", " ", "g", "o", "a", "l", ".">>,
     <<"G", "r", "e", "a", "t", " ", "s", "t", "a", "r", "t", " ", "o", "n", " ", "y", "o", "u", "r", " ", "E", "m", "e", "r", "g", "e", "n", "c", "y", " ", "F", "u", "n", "d", ".", " ", "K", "e", "e", "p", " ", "a", " ", "s", "t", "e", "a", "d", "y", " ", "m", "o", "n", "t", "h", "l", "y", " ", "c", "o", "n", "t", "r", "i", "b", "u", "t", "i", "o", "n", " ", "a", "n", "d", " ", "r", "e", "v", "i", "e", "w", " ", "y", "o", "u", "r", " ", "b", "u", "d", "g", "e", "t", " ", "e", "v", "e", "r", "y", " ", "q", "u", "a", "r", "t", "e", "r", " ", "t", "o", " ", "s", "t", "a", "y", " ", "o", "n", " ", "t", "r", "a", "c", "k", ".">>}

Answer(store, kind) ==
    [store |-> store, raised |-> FALSE,
     response |-> [kind |-> kind, text |-> ResponseText[kind]]]

LlmAnswer(store, text) ==
    [store |-> store, raised |-> FALSE, response |-> [kind |-> "llm", text |-> text]]

Raised(store) ==
    [store |-> store, raised |-> TRUE, response |-> [kind |-> "none", text |-> <<>>]]

\* r"GOAL\d+" with re.IGNORECASE
goal_id_pattern == Cap(Cat(<<LitI(<<"G", "O", "A", "L">>), Plus(Cls(Digit))>>))

\* the Goal ID a text names: its number when it starts with GOAL, else 0
GoalIdOfText(text) ==
    IF SubSeq(text, 1, 4) = <<"G", "O", "A", "L">>
    THEN ParseInt(SubSeq(text, 5, Len(text))) ELSE 0

\* str(goal['Goal Name']) as text; the names are those of goal_types
GoalTypeText(name) ==
    goal_types[CHOOSE k \in 1..Len(goal_types) : goal_types[k].goal_type = name].name

\* _extract_goal_id: an ID written in the query, else the customer's first
\* goal whose name or type the query holds, else the customer's only goal
ExtractGoalId(store, query, customer_id) ==
    LET goal_id_match == Search(goal_id_pattern, query)
        user_goals    == GetUserGoals(store, customer_id)
        query_lower   == Lower(query)
        named == {k \in 1..Len(user_goals) :
                    \/ Contains(query_lower, Lower(GoalTypeText(user_goals[k].goal_name)))
                    \/ Contains(query_lower, Lower(GoalTypeText(user_goals[k].goal_type)))}
    IN  IF goal_id_match.found
        THEN [found |-> TRUE, goal_id |-> GoalIdOfText(goal_id_match.g)]
        ELSE IF named # {}
        THEN [found |-> TRUE,
              goal_id |-> user_goals[CHOOSE k \in named : \A j \in named : k <= j].goal_id]
        ELSE IF Len(user_goals) = 1
        THEN [found |-> TRUE, goal_id |-> user_goals[1].goal_id]
        ELSE [found |-> FALSE, goal_id |-> 0]

\* _handle_create_goal
HandleCreateGoalRequest(store, request, customer_id, env) ==
    LET params  == ExtractedParams(env.llm, request.regex_params)
        missing == MissingParams(params)
        full    == WithDefaults(params)
    IN  IF IsGeneralIntent(request.query) /\ Cardinality(DOMAIN params) <= 1
        THEN Answer(store, "guidance")
        ELSE IF missing # <<>>
        THEN Answer(store, "missing")
        ELSE IF CreateGoalRaises(full, env.io)
        THEN Answer(store, "create_error")
        ELSE LET created == CreateGoal(store, customer_id, full)
             IN  CASE env.readback = "raise"   -> Answer(created, "create_error")
                   [] env.readback = "missing" -> Answer(created, "processed")
                   [] OTHER ->
                        IF /\ ~env.text.raises
                           /\ Len(env.text.text) > 100
                           /\ \E k \in 1..Len(env.text.text) : env.text.text[k] = " "
                        THEN LlmAnswer(created, env.text.text)
                        ELSE Answer(created, "created")

\* _handle_modify_goal
HandleModifyGoal(store, request, customer_id, env) ==
    LET id == request.goal_id
    IN  IF ~id.found THEN Answer(store, "which_goal_modify")
        ELSE IF ~GoalExists(store, id.goal_id) THEN Answer(store, "not_found")
        ELSE
          LET goal          == GetGoalById(store, id.goal_id)
              update_params == ExtractedParams(env.llm, request.regex_params)
              new_target_date ==
                  IF "target_date" \in DOMAIN update_params
                  THEN update_params["target_date"] ELSE goal.target_date
              timeline_changed == goal.target_date # new_target_date
              updated == UpdateGoal(store, id.goal_id, update_params, env.io)
          IN  IF update_params = <<>> THEN Answer(store, "no_changes")
              ELSE IF /\ timeline_changed
                      /\ \/ ~StrptimeMDY(goal.target_date).ok
                         \/ ~StrptimeMDY(new_target_date).ok
              THEN Raised(store)
              ELSE IF ~updated.ret THEN Answer(store, "update_error")
              ELSE IF timeline_changed /\ env.text.raises THEN Raised(updated.store)
              ELSE Answer(updated.store, "updated")

\* _handle_delete_goal
HandleDeleteGoal(store, request, customer_id, env) ==
    LET id      == request.goal_id
        deleted == DeleteGoal(store, id.goal_id, env.io)
    IN  IF ~id.found THEN Answer(store, "which_goal_delete")
        ELSE IF ~GoalExists(store, id.goal_id) THEN Answer(store, "not_found")
        ELSE IF ~deleted.ret THEN Answer(store, "delete_error")
        ELSE Answer(deleted.store, "deleted")

\* a status handler that removes the goal it reports on
HandleGoalStatusRemoving(store, request, customer_id, env) ==
    HandleDeleteGoal(store, request, customer_id, env)

\* _handle_goal_status
HandleGoalStatus(store, request, customer_id, env) ==
    LET id == request.goal_id
    IN  IF ~id.found
        THEN IF GetUserGoals(store, customer_id) = <<>>
             THEN Answer(store, "no_goals")
             ELSE Answer(store, "status_summary")
        ELSE IF ~GoalExists(store, id.goal_id) THEN Answer(store, "not_found")
        ELSE IF env.text.raises THEN Raised(store)
        ELSE LlmAnswer(store, env.text.text)

\* _handle_goal_recommendations
HandleGoalRecommendations(store, request, customer_id, env) ==
    IF GetUserGoals(store, customer_id) = <<>> THEN Answer(store, "no_goals")
    ELSE IF env.text.raises THEN Raised(store)
    ELSE LlmAnswer(store, env.text.text)

\* _handle_general_goal_query
HandleGeneralGoalQuery(store, request, customer_id, env) ==
    IF env.text.raises THEN Raised(store) ELSE LlmAnswer(store, env.text.text)

\* handle_goal_request: the handler of the intent
HandleIntent(intent, store, request, customer_id, env) ==
    CASE intent = "create_goal" -> HandleCreateGoalRequest(store, request, customer_id, env)
      [] intent = "modify_goal" -> HandleModifyGoal(store, request, customer_id, env)
      [] intent = "delete_goal" -> HandleDeleteGoal(store, request, customer_id, env)
      [] intent = "goal_status" -> HandleGoalStatus(store, request, customer_id, env)
      [] intent = "goal_recommendations" ->
           HandleGoalRecommendations(store, request, customer_id, env)
      [] OTHER -> HandleGeneralGoalQuery(store, request, customer_id, env)

\* handle_goal_request: the shape of what it returns, from the request
\* and the handler's response
ResponseType(store, query, customer_id, response) ==
    LET request_lower  == Lower(query)
        response_lower == Lower(response.text)
    IN  IF /\ \E term \in {<<"c", "r", "e", "a", "t", "e">>, <<"n", "e", "w">>, <<"a", "d", "d">>, <<"s", "e", "t", " ", "u", "p">>} :
                Contains(request_lower, term)
           /\ Contains(response_lower, <<"s", "u", "c", "c", "e", "s", "s", "f", "u", "l", "l", "y">>)
           /\ Contains(response_lower, <<"g", "o", "a", "l">>)
        THEN "goal_created"
        ELSE IF /\ Contains(request_lower, <<"g", "o", "a", "l", "s">>)
                /\ \E term \in {<<"w", "h", "a", "t">>, <<"l", "i", "s", "t">>, <<"a", "l", "l">>, <<"m", "y">>} :
                     Contains(request_lower, term)
                /\ GetUserGoals(store, customer_id) # <<>>
        THEN "all_goals"
        ELSE IF Contains(request_lower, <<"r", "e", "c", "o", "m", "m", "e", "n", "d">>)
        THEN "goal_recommendations"
        ELSE "text"

\* datetime.now() of the requests
RequestNow == [y |-> 2025, m |-> 6]

\* goals files a request finds
RequestStores ==
    {<<>>,
     CreateGoal(<<>>, <<"U", "1">>, StoreParams),
     CreateGoal(CreateGoal(<<>>, <<"U", "1">>, StoreParams), <<"U", "2">>, StoreParams)}

\* what the calls of a handler give
RequestEnvs ==
    [llm      : {[kind |-> "raise", params |-> <<>>],
                 [kind |-> "json",
                  params |-> ("goal_name" :> EmergencyFund) @@ ("target_amount" :> 250000)
                             @@ ("target_date" :> ScenarioDate)]},
     io       : HandlerOutcomes,
     readback : {"found", "missing", "raise"},
     text     : {Raise} \cup {Reply(t) : t \in LlmTexts}]

(***************************************************************************)
(* State                                                                   *)
(***************************************************************************)
VARIABLES
    \* one cycle of FinancialAdvisorAgent.process_query
    pc,                \* stage the cycle is at
    user_query,        \* the query as received
    hist_len,          \* len(chat_history)
    rewritten_query,
    query_rewritten,
    is_goal_focused,
    classification,
    llm_categories,    \* what _classify_with_llm returned ("unset" before)
    idx,               \* position of the dispatch loop in classification
    agent_responses,
    invoked,           \* categories whose handler was called, in order
    failed,            \* categories whose handler raised
    final_response,
    outcome,           \* "pending", "returned" or "raised"
    llm_calls,         \* completion calls made, by call site
    stages,            \* stages entered so far
    operated_on,       \* queries handed to the stages after REWRITE
    synthesis_replies, \* outcomes of the synthesis completion calls made
    fmt_outcome,       \* how process_query_with_formatting ended
    fmt_response,      \* what process_query_with_formatting returned
    \* a direct call of a ContextManager method
    cm_pc, cm_query, cm_hist, cm_llm_should, cm_llm_rewrite, cm_out,
    \* a direct call of GoalPlanningAgent._extract_goal_parameters
    x_pc, x_case, x_in, x_now, x_params,
    \* GoalPlanningAgent._handle_create_goal over the goal store
    g_pc, g_query, g_llm, g_regex, g_params, g_reply, g_missing, g_create_calls, goals,
    \* the classifier methods called directly
    cl_pc, cl_query, cl_llm, cl_out,
    \* GoalDataManager called directly: the last call with the file before
    \* it, and per request cycle the call it is in, the frame it read, what
    \* the call returned, and the cycles in the order they wrote the file
    s_call, w_pc, w_op, w_df, w_ret, w_order,
    \* GoalPlanningAgent.handle_goal_request: the request, what the regex
    \* passes find in it, the reply of the intent call, the intent, the
    \* response, the shape of the returned value, the goals file before
    r_pc, r_request, r_customer, r_regex_intent, r_regex_params, r_llm, r_intent,
    r_response, r_result, r_before

routerVars ==
    <<pc, user_query, hist_len, rewritten_query, query_rewritten, is_goal_focused,
      classification, llm_categories, idx, agent_responses, invoked, failed,
      final_response, outcome, llm_calls, stages, operated_on,
      synthesis_replies, fmt_outcome, fmt_response>>

cmVars == <<cm_pc, cm_query, cm_hist, cm_llm_should, cm_llm_rewrite, cm_out>>

xVars == <<x_pc, x_case, x_in, x_now, x_params>>

gVars ==
    <<g_pc, g_query, g_llm, g_regex, g_params, g_reply, g_missing, g_create_calls, goals>>

clVars == <<cl_pc, cl_query, cl_llm, cl_out>>

sVars == <<s_call, w_pc, w_op, w_df, w_ret, w_order>>

rVars ==
    <<r_pc, r_request, r_customer, r_regex_intent, r_regex_params, r_llm, r_intent,
      r_response, r_result, r_before>>

vars == <<routerVars, cmVars, xVars, gVars, clVars, sVars, rVars>>

NoCalls ==
    [should_rewrite |-> 0, rewrite |-> 0, goal_check |-> 0, classify |-> 0,
     goal_intent |-> 0, param_extraction |-> 0,
     general_advice |-> 0, synthesis |-> 0, follow_up |-> 0]

NoText == [kind |-> "none"]

RouterInit ==
    /\ pc = "receive"
    /\ user_query \in Queries
    /\ hist_len \in 0..MaxHistory
    /\ rewritten_query = user_query
    /\ query_rewritten = FALSE
    /\ is_goal_focused = FALSE
    /\ classification = <<>>
    /\ llm_categories = "unset"
    /\ idx = 1
    /\ agent_responses = <<>>
    /\ invoked = <<>>
    /\ failed = {}
    /\ final_response = NoText
    /\ outcome = "pending"
    /\ llm_calls = NoCalls
    /\ stages = <<>>
    /\ operated_on = {}
    /\ synthesis_replies = <<>>
    /\ fmt_outcome = "pending"
    /\ fmt_response = NoText

RouterIdle ==
    /\ pc = "off"
    /\ user_query = <<>>
    /\ hist_len = 0
    /\ rewritten_query = <<>>
    /\ query_rewritten = FALSE
    /\ is_goal_focused = FALSE
    /\ classification = <<>>
    /\ llm_categories = "unset"
    /\ idx = 1
    /\ agent_responses = <<>>
    /\ invoked = <<>>
    /\ failed = {}
    /\ final_response = NoText
    /\ outcome = "pending"
    /\ llm_calls = NoCalls
    /\ stages = <<>>
    /\ operated_on = {}
    /\ synthesis_replies = <<>>
    /\ fmt_outcome = "pending"
    /\ fmt_response = NoText

CmInit ==
    /\ cm_pc = "idle"
    /\ cm_query \in Queries
    /\ cm_hist \in 0..MaxHistory
    /\ cm_llm_should = Raise
    /\ cm_llm_rewrite = Raise
    /\ cm_out = [op |-> "none"]

CmIdle ==
    /\ cm_pc = "off"
    /\ cm_query = <<>>
    /\ cm_hist = 0
    /\ cm_llm_should = Raise
    /\ cm_llm_rewrite = Raise
    /\ cm_out = [op |-> "none"]

XIdle ==
    /\ x_pc = "off"
    /\ x_case = AmountCase("phrase", 1)
    /\ x_in = <<>>
    /\ x_now = [y |-> 2025, m |-> 6]
    /\ x_params = <<>>

XInit ==
    /\ x_pc = "idle"
    /\ x_case \in ExtractCases
    /\ x_in = CaseText(x_case)
    /\ x_now \in Nows
    /\ x_params = <<>>

GInit ==
    /\ g_pc = "idle"
    /\ g_query \in GoalQueries
    /\ g_llm = [kind |-> "raise", params |-> <<>>]
    /\ g_regex = <<>>
    /\ g_params = <<>>
    /\ g_reply = "none"
    /\ g_missing = <<>>
    /\ g_create_calls = 0
    /\ goals = <<>>

GIdle ==
    /\ g_pc = "off"
    /\ g_query = <<>>
    /\ g_llm = [kind |-> "raise", params |-> <<>>]
    /\ g_regex = <<>>
    /\ g_params = <<>>
    /\ g_reply = "none"
    /\ g_missing = <<>>
    /\ g_create_calls = 0
    /\ goals = <<>>

NoCall == [op |-> "none"]

SIdle ==
    /\ s_call = NoCall
    /\ w_pc = [p \in Cycles |-> "off"]
    /\ w_op = [p \in Cycles |-> NoCall]
    /\ w_df = [p \in Cycles |-> <<>>]
    /\ w_ret = [p \in Cycles |-> "none"]
    /\ w_order = <<>>

NoResponse == [kind |-> "none", text |-> <<>>]

RIdle ==
    /\ r_pc = "off"
    /\ r_request = <<>>
    /\ r_customer = <<>>
    /\ r_regex_intent = [intent |-> NoIntent, by |-> "none"]
    /\ r_regex_params = <<>>
    /\ r_llm = Raise
    /\ r_intent = NoIntent
    /\ r_response = NoResponse
    /\ r_result = "none"
    /\ r_before = <<>>

GReqIdle ==
    /\ g_pc = "off"
    /\ g_query = <<>>
    /\ g_llm = [kind |-> "raise", params |-> <<>>]
    /\ g_regex = <<>>
    /\ g_params = <<>>
    /\ g_reply = "none"
    /\ g_missing = <<>>
    /\ g_create_calls = 0

ClInit ==
    /\ cl_pc = "idle"
    /\ cl_query \in Queries
    /\ cl_llm = Raise
    /\ cl_out = [op |-> "none"]

ClIdle ==
    /\ cl_pc = "off"
    /\ cl_query = <<>>
    /\ cl_llm = Raise
    /\ cl_out = [op |-> "none"]

(***************************************************************************)
(* process_query, stage by stage                                           *)
(***************************************************************************)
\* a stage handed the original query
StageQueryOriginal(original, rewritten) == original

\* the query process_query hands to the goal-focus check, the classifier,
\* dispatch and aggregation: rewritten_query
StageQuery(original, rewritten) == rewritten

OperatedOn == operated_on' = operated_on \cup {StageQuery(user_query, rewritten_query)}

\* an exception reaches the except clause of process_query
Escape(err) ==
    /\ final_response' = ProcessQueryExcept(err).text
    /\ outcome' = ProcessQueryExcept(err).outcome
    /\ pc' = "respond"

\* if chat_history and len(chat_history) > 0: context_manager.rewrite_query
Rewrite ==
    /\ pc = "receive"
    /\ hist_len > 0
    /\ \E ls \in ShouldReplies, lr \in RewriteReplies(user_query) :
         IF ShouldRewriteQueryRaises(user_query, hist_len, ls)
         THEN /\ Escape("AttributeError")
              /\ llm_calls' = [llm_calls EXCEPT !.should_rewrite = @ + 1]
              /\ stages' = stages \o <<"REWRITE", "RESPOND">>
              /\ UNCHANGED <<rewritten_query, query_rewritten>>
         ELSE LET r == RewriteQuery(user_query, hist_len, ls, lr)
              IN  /\ rewritten_query' = r.query
                  /\ query_rewritten' = r.rewritten
                  /\ llm_calls' = [llm_calls EXCEPT !.should_rewrite = @ + r.should_calls,
                                                    !.rewrite = @ + r.rewrite_calls]
                  /\ pc' = "goalcheck"
                  /\ stages' = Append(stages, "REWRITE")
                  /\ UNCHANGED <<final_response, outcome>>
    /\ UNCHANGED <<user_query, hist_len, is_goal_focused, classification,
                   llm_categories, idx, agent_responses, invoked, failed>>
    /\ UNCHANGED <<cmVars, xVars, gVars, clVars>>
    /\ UNCHANGED operated_on
    /\ UNCHANGED synthesis_replies
    /\ UNCHANGED <<fmt_outcome, fmt_response>>
    /\ UNCHANGED <<sVars, rVars>>

\* no history supplied: the query goes on as received
SkipRewrite ==
    /\ pc = "receive"
    /\ hist_len = 0
    /\ pc' = "goalcheck"
    /\ UNCHANGED <<user_query, hist_len, rewritten_query, query_rewritten,
                   is_goal_focused, classification, llm_categories, idx,
                   agent_responses, invoked, failed, final_response, outcome,
                   llm_calls, stages>>
    /\ UNCHANGED <<cmVars, xVars, gVars, clVars>>
    /\ UNCHANGED operated_on
    /\ UNCHANGED synthesis_replies
    /\ UNCHANGED <<fmt_outcome, fmt_response>>
    /\ UNCHANGED <<sVars, rVars>>

\* is_goal_focused = self._is_goal_related_request(rewritten_query)
GoalFocusCheck ==
    /\ pc = "goalcheck"
    /\ \E llm \in GoalReplies :
         IF IsGoalRelatedRequestRaises(StageQuery(user_query, rewritten_query), llm)
         THEN /\ Escape("AttributeError")
              /\ stages' = stages \o <<"GOAL-FOCUS CHECK", "RESPOND">>
              /\ UNCHANGED <<is_goal_focused, classification>>
         ELSE LET focused == IsGoalRelatedRequest(StageQuery(user_query, rewritten_query), llm)
              IN  /\ is_goal_focused' = focused
                  /\ IF focused
                     THEN /\ classification' =
                               EnsureGoalFirst(GoalFocusedClassification, focused)
                          /\ pc' = "dispatch"
                     ELSE /\ classification' = classification
                          /\ pc' = "classify"
                  /\ stages' = Append(stages, "GOAL-FOCUS CHECK")
                  /\ UNCHANGED <<final_response, outcome>>
    /\ llm_calls' = [llm_calls EXCEPT !.goal_check = @ + 1]
    /\ UNCHANGED <<user_query, hist_len, rewritten_query, query_rewritten,
                   llm_categories, idx, agent_responses, invoked, failed>>
    /\ UNCHANGED <<cmVars, xVars, gVars, clVars>>
    /\ OperatedOn
    /\ UNCHANGED synthesis_replies
    /\ UNCHANGED <<fmt_outcome, fmt_response>>
    /\ UNCHANGED <<sVars, rVars>>

\* classification = self._classify_query(rewritten_query, user_context)
Classify ==
    /\ pc = "classify"
    /\ \E llm \in ClassifyReplies :
         /\ llm_categories' = ClassifyWithLlm(llm)
         /\ IF ClassifyQueryRaises(StageQuery(user_query, rewritten_query), llm)
            THEN /\ Escape("AttributeError")
                 /\ stages' = stages \o <<"CLASSIFY", "RESPOND">>
                 /\ UNCHANGED classification
            ELSE /\ classification' =
                      EnsureGoalFirst(ClassifyQuery(StageQuery(user_query, rewritten_query), llm), is_goal_focused)
                 /\ pc' = "dispatch"
                 /\ stages' = Append(stages, "CLASSIFY")
                 /\ UNCHANGED <<final_response, outcome>>
    /\ llm_calls' = [llm_calls EXCEPT !.classify = @ + 1]
    /\ UNCHANGED <<user_query, hist_len, rewritten_query, query_rewritten,
                   is_goal_focused, idx, agent_responses, invoked, failed>>
    /\ UNCHANGED <<cmVars, xVars, gVars, clVars>>
    /\ OperatedOn
    /\ UNCHANGED synthesis_replies
    /\ UNCHANGED <<fmt_outcome, fmt_response>>
    /\ UNCHANGED <<sVars, rVars>>

EnterDispatch == IF InSeq("DISPATCH", stages) THEN stages ELSE Append(stages, "DISPATCH")

DispatchFrame ==
    /\ UNCHANGED <<user_query, hist_len, rewritten_query, query_rewritten,
                   is_goal_focused, classification, llm_categories,
                   final_response, outcome>>
    /\ UNCHANGED <<cmVars, xVars, gVars, clVars>>

\* category == "Goal Planning": goal_planning_agent.handle_goal_request; a
\* goal-focused cycle returns from the loop after a response
DispatchGoalPlanning ==
    /\ pc = "dispatch"
    /\ idx <= Len(classification)
    /\ classification[idx] = "Goal Planning"
    /\ \E h \in HandlerOutcomes, sub \in GoalRequestCalls :
         /\ agent_responses' = DictSet(agent_responses, "Goal Planning", HandlerResult(h))
         /\ failed' = IF h = "raise" THEN failed \cup {"Goal Planning"} ELSE failed
         /\ IF h = "ok" /\ is_goal_focused
            THEN pc' = "aggregate" /\ idx' = idx
            ELSE pc' = pc /\ idx' = idx + 1
         /\ llm_calls' = [llm_calls EXCEPT !.goal_intent = @ + sub.goal_intent,
                                           !.param_extraction = @ + sub.param_extraction]
    /\ invoked' = Append(invoked, "Goal Planning")
    /\ stages' = EnterDispatch
    /\ DispatchFrame
    /\ OperatedOn
    /\ UNCHANGED synthesis_replies
    /\ UNCHANGED <<fmt_outcome, fmt_response>>
    /\ UNCHANGED <<sVars, rVars>>

\* category == "Transaction Analysis": nudges, unless goal-focused
DispatchTransactionAnalysis ==
    /\ pc = "dispatch"
    /\ idx <= Len(classification)
    /\ classification[idx] = "Transaction Analysis"
    /\ IF ~is_goal_focused
       THEN \E h \in HandlerOutcomes :
              /\ agent_responses' = DictSet(agent_responses, "Transaction Analysis",
                                            HandlerResult(h))
              /\ failed' = IF h = "raise" THEN failed \cup {"Transaction Analysis"}
                           ELSE failed
              /\ invoked' = Append(invoked, "Transaction Analysis")
       ELSE UNCHANGED <<agent_responses, failed, invoked>>
    /\ idx' = idx + 1
    /\ pc' = pc
    /\ stages' = EnterDispatch
    /\ UNCHANGED llm_calls
    /\ DispatchFrame
    /\ OperatedOn
    /\ UNCHANGED synthesis_replies
    /\ UNCHANGED <<fmt_outcome, fmt_response>>
    /\ UNCHANGED <<sVars, rVars>>

\* category == "Asset Allocation": asset_allocation_agent.handle_query
DispatchAssetAllocation ==
    /\ pc = "dispatch"
    /\ idx <= Len(classification)
    /\ classification[idx] = "Asset Allocation"
    /\ \E h \in HandlerOutcomes :
         /\ agent_responses' = DictSet(agent_responses, "Asset Allocation", HandlerResult(h))
         /\ failed' = IF h = "raise" THEN failed \cup {"Asset Allocation"} ELSE failed
    /\ invoked' = Append(invoked, "Asset Allocation")
    /\ idx' = idx + 1
    /\ pc' = pc
    /\ stages' = EnterDispatch
    /\ UNCHANGED llm_calls
    /\ DispatchFrame
    /\ OperatedOn
    /\ UNCHANGED synthesis_replies
    /\ UNCHANGED <<fmt_outcome, fmt_response>>
    /\ UNCHANGED <<sVars, rVars>>

\* category == "Education".  topic is bound by _extract_education_topic
\* inside the try block and read by the except branch: when the extraction
\* itself raises, the except branch raises UnboundLocalError, which leaves
\* _get_agent_responses and is caught by process_query
DispatchEducation ==
    /\ pc = "dispatch"
    /\ idx <= Len(classification)
    /\ classification[idx] = "Education"
    /\ IF ExtractEducationTopicRaises(StageQuery(user_query, rewritten_query))
       THEN /\ failed' = failed \cup {"Education"}
            /\ Escape("UnboundLocalError")
            /\ stages' = Append(EnterDispatch, "RESPOND")
            /\ UNCHANGED <<agent_responses, invoked, idx>>
       ELSE \E h \in HandlerOutcomes :
              /\ agent_responses' = DictSet(agent_responses, "Education", HandlerResult(h))
              /\ failed' = IF h = "raise" THEN failed \cup {"Education"} ELSE failed
              /\ invoked' = Append(invoked, "Education")
              /\ idx' = idx + 1
              /\ pc' = pc
              /\ stages' = EnterDispatch
              /\ UNCHANGED <<final_response, outcome>>
    /\ UNCHANGED llm_calls
    /\ UNCHANGED <<user_query, hist_len, rewritten_query, query_rewritten,
                   is_goal_focused, classification, llm_categories>>
    /\ UNCHANGED <<cmVars, xVars, gVars, clVars>>
    /\ OperatedOn
    /\ UNCHANGED synthesis_replies
    /\ UNCHANGED <<fmt_outcome, fmt_response>>
    /\ UNCHANGED <<sVars, rVars>>

\* category == "General Financial Advice": _generate_general_advice, which
\* catches a failed completion itself and returns its own apology
DispatchGeneralAdvice ==
    /\ pc = "dispatch"
    /\ idx <= Len(classification)
    /\ classification[idx] = "General Financial Advice"
    /\ \E h \in HandlerOutcomes :
         agent_responses' = DictSet(agent_responses, "General Financial Advice",
                                    IF h = "ok" THEN "content" ELSE "advice_apology")
    /\ invoked' = Append(invoked, "General Financial Advice")
    /\ llm_calls' = [llm_calls EXCEPT !.general_advice = @ + 1]
    /\ idx' = idx + 1
    /\ pc' = pc
    /\ stages' = EnterDispatch
    /\ UNCHANGED failed
    /\ DispatchFrame
    /\ OperatedOn
    /\ UNCHANGED synthesis_replies
    /\ UNCHANGED <<fmt_outcome, fmt_response>>
    /\ UNCHANGED <<sVars, rVars>>

\* the loop is exhausted: return agent_responses
DispatchDone ==
    /\ pc = "dispatch"
    /\ idx > Len(classification)
    /\ pc' = "aggregate"
    /\ stages' = EnterDispatch
    /\ UNCHANGED <<idx, agent_responses, invoked, failed, llm_calls>>
    /\ DispatchFrame
    /\ UNCHANGED operated_on
    /\ UNCHANGED synthesis_replies
    /\ UNCHANGED <<fmt_outcome, fmt_response>>
    /\ UNCHANGED <<sVars, rVars>>

\* final_response = self._generate_final_response(...); return final_response
Aggregate ==
    /\ pc = "aggregate"
    /\ \E synth \in HandlerOutcomes, follow \in HandlerOutcomes :
         LET r == GenerateFinalResponse(classification, agent_responses, synth, follow)
         IN  /\ final_response' = r.text
             /\ llm_calls' = [llm_calls EXCEPT !.synthesis = @ + r.calls.synthesis,
                                               !.follow_up = @ + r.calls.follow_up]
             /\ synthesis_replies' =
                  IF r.calls.synthesis = 1 THEN Append(synthesis_replies, synth)
                  ELSE synthesis_replies
    /\ outcome' = "returned"
    /\ pc' = "respond"
    /\ stages' = stages \o <<"AGGREGATE", "RESPOND">>
    /\ UNCHANGED <<user_query, hist_len, rewritten_query, query_rewritten,
                   is_goal_focused, classification, llm_categories, idx,
                   agent_responses, invoked, failed>>
    /\ UNCHANGED <<cmVars, xVars, gVars, clVars>>
    /\ OperatedOn
    /\ UNCHANGED <<fmt_outcome, fmt_response>>
    /\ UNCHANGED <<sVars, rVars>>

Init == RouterInit /\ CmIdle /\ XIdle /\ GIdle /\ ClIdle /\ SIdle /\ RIdle

Next ==
    \/ Rewrite
    \/ SkipRewrite
    \/ GoalFocusCheck
    \/ Classify
    \/ DispatchGoalPlanning
    \/ DispatchTransactionAnalysis
    \/ DispatchAssetAllocation
    \/ DispatchEducation
    \/ DispatchGeneralAdvice
    \/ DispatchDone
    \/ Aggregate

Spec == Init /\ [][Next]_vars

\* process_query_with_formatting, the entry point of the UI: process_query,
\* then the formatting pass over its response
FormatResponse ==
    /\ pc = "respond"
    /\ outcome = "returned"
    /\ fmt_outcome = "pending"
    /\ \E has_formatting_issues \in BOOLEAN, fix \in HandlerOutcomes :
         LET r == ProcessQueryWithFormatting(final_response, has_formatting_issues, fix)
         IN  /\ fmt_outcome' = r.outcome
             /\ fmt_response' = r.text
    /\ UNCHANGED <<pc, user_query, hist_len, rewritten_query, query_rewritten,
                   is_goal_focused, classification, llm_categories, idx,
                   agent_responses, invoked, failed, final_response, outcome,
                   llm_calls, stages, operated_on, synthesis_replies>>
    /\ UNCHANGED <<cmVars, xVars, gVars, clVars>>
    /\ UNCHANGED <<sVars, rVars>>

NextEntry == Next \/ FormatResponse

SpecEntry == Init /\ [][NextEntry]_vars

(***************************************************************************)
(* Properties of the process_query cycle                                   *)
(***************************************************************************)
TextKinds == {"single", "integrated", "concatenated", "apology"}

SpecificCategories ==
    {"Transaction Analysis", "Goal Planning", "Asset Allocation", "Education"}

Count(x, s) == Cardinality({k \in 1..Len(s) : s[k] = x})

\* _classify_query has returned its list to process_query
ClassifierReturned == ~is_goal_focused /\ pc \in {"dispatch", "aggregate"}

\* the cycle left the try block through the except clause
ExceptionEscaped == pc = "respond" /\ ~InSeq("AGGREGATE", stages)

\* C1: process_query never raises and always returns a string: whatever the
\* query, the history and the behaviour of the completion service and of
\* the handlers, no stage before RESPOND gets stuck, the cycle does not end
\* by raising, RESPOND holds a text, and when an exception escaped the inner
\* handlers that text is the apology with the error inlined.
C1_AlwaysRespondsWithText ==
    /\ outcome # "raised"
    /\ pc # "respond" => outcome = "pending" /\ ENABLED Next
    /\ pc = "respond" => outcome = "returned" /\ final_response.kind \in TextKinds
    /\ ExceptionEscaped =>
         /\ final_response.kind = "apology"
         /\ final_response.err \in {"AttributeError", "UnboundLocalError"}

\* an exception escaped the dispatch loop and the cycle returned the apology
C1_Witness ==
    /\ pc = "respond"
    /\ outcome = "returned"
    /\ final_response = [kind |-> "apology", err |-> "UnboundLocalError"]

\* C3: the list _classify_query returns is non-empty, and when it holds none
\* of the four specific categories it holds "General Financial Advice"
\* exactly once.
C3_FallbackGuarantee ==
    ClassifierReturned =>
        /\ classification # <<>>
        /\ (\A k \in 1..Len(classification) : classification[k] \notin SpecificCategories)
             => Count("General Financial Advice", classification) = 1

\* C4: when the goal-intent check returned true, the classification used
\* for dispatch is exactly ["Goal Planning"] and the general classifier was
\* not invoked in the cycle.
C4_GoalFocusShortCircuit ==
    is_goal_focused =>
        /\ pc \in {"dispatch", "aggregate", "respond"}
        /\ classification = <<"Goal Planning">>
        /\ llm_categories = "unset"
        /\ llm_calls.classify = 0
        /\ ~InSeq("CLASSIFY", stages)

\* a goal-focused cycle is dispatching a query for which the heuristic pass
\* of the general classifier puts another category first
C4_Witness ==
    /\ is_goal_focused
    /\ pc = "aggregate"
    /\ rewritten_query # None
    /\ HeuristicCategories(rewritten_query)[1] = "Transaction Analysis"
    /\ invoked = <<"Goal Planning">>

\* C5: partial-failure isolation: once dispatch is over, every category that
\* failed has its own error string in agent_responses, every other
\* classified category has a response recorded, and the call did not raise.
C5_PartialFailureIsolation ==
    pc \in {"aggregate", "respond"} =>
        /\ outcome # "raised"
        /\ \A c \in failed :
             /\ DictHas(agent_responses, c)
             /\ agent_responses[DictGet(agent_responses, c)].kind = "error"
             /\ \A k \in 1..Len(classification) :
                  classification[k] # c => DictHas(agent_responses, classification[k])

C7_DistinctValidLabels ==
    ClassifierReturned =>
        /\ \A k \in 1..Len(classification) : InSeq(classification[k], valid_categories)
        /\ \A j, k \in 1..Len(classification) :
             j # k => classification[j] # classification[k]

StageOrder ==
    <<"REWRITE", "GOAL-FOCUS CHECK", "CLASSIFY", "DISPATCH", "AGGREGATE", "RESPOND">>

StageRank(stage) == CHOOSE k \in 1..Len(StageOrder) : StageOrder[k] = stage

\* C13: the stages of a cycle occur only in the order REWRITE, GOAL-FOCUS
\* CHECK, CLASSIFY, DISPATCH, AGGREGATE, RESPOND; REWRITE is entered only
\* with a non-empty history, CLASSIFY only after a goal-focus check that
\* returned false; and every stage after REWRITE is handed the rewritten
\* query, never the original one once a rewrite occurred.
C13_StageOrdering ==
    /\ \A k \in 1..Len(stages) : InSeq(stages[k], StageOrder)
    /\ \A j, k \in 1..Len(stages) : j < k => StageRank(stages[j]) < StageRank(stages[k])
    /\ InSeq("REWRITE", stages) => hist_len > 0
    /\ InSeq("CLASSIFY", stages) => InSeq("GOAL-FOCUS CHECK", stages) /\ ~is_goal_focused
    /\ operated_on \subseteq {rewritten_query}
    /\ query_rewritten => user_query \notin operated_on /\ rewritten_query # user_query

\* a cycle went through all six stages after a rewrite took place
C13_Witness ==
    /\ pc = "respond"
    /\ stages = StageOrder
    /\ query_rewritten
    /\ operated_on = {rewritten_query}

\* C19: AGGREGATE with two or more category responses: when the synthesis
\* completion call fails, the cycle still returns, and what it returns is
\* the concatenation of one "Category:" + newline + response block per entry
\* of agent_responses, in insertion order.
C19_SynthesisFallbackConcatenates ==
    InSeq("AGGREGATE", stages) /\ Len(agent_responses) >= 2
    /\ InSeq("raise", synthesis_replies) =>
        /\ outcome = "returned"
        /\ final_response = [kind |-> "concatenated", blocks |-> agent_responses]

\* the synthesis call failed over three responses
C19_Witness ==
    /\ pc = "respond"
    /\ synthesis_replies = <<"raise">>
    /\ Len(agent_responses) >= 2
    /\ agent_responses[1].cat = "Goal Planning"
    /\ final_response.kind = "concatenated"
    /\ Len(final_response.blocks) = Len(agent_responses)

\* C28: in a goal-focused cycle only the Goal Planning handler is invoked:
\* no other category handler is called, and once dispatch is over
\* agent_responses holds exactly one entry, keyed "Goal Planning", also when
\* the goal handler raised.
C28_GoalFocusedOnlyGoalHandler ==
    is_goal_focused =>
        /\ \A k \in 1..Len(invoked) : invoked[k] = "Goal Planning"
        /\ Len(invoked) <= 1
        /\ failed \subseteq {"Goal Planning"}
        /\ pc \in {"aggregate", "respond"} =>
             /\ invoked = <<"Goal Planning">>
             /\ Len(agent_responses) = 1
             /\ agent_responses[1].cat = "Goal Planning"

\* a goal-focused cycle whose goal handler raised has returned
C28_Witness ==
    /\ is_goal_focused
    /\ pc = "respond"
    /\ failed = {"Goal Planning"}
    /\ Len(agent_responses) = 1
    /\ agent_responses[1] = [cat |-> "Goal Planning", kind |-> "error"]

\* C29: handler-level failure containment for every category handler,
\* Education included: a cycle that entered DISPATCH goes on to AGGREGATE
\* whatever raised inside a handler; each failed category has an entry in
\* agent_responses, the categories after it were dispatched as well, and the
\* outer apology of process_query is never the answer.
C29_EveryHandlerFailureContained ==
    InSeq("DISPATCH", stages) /\ pc = "respond" =>
        /\ InSeq("AGGREGATE", stages)
        /\ final_response.kind # "apology"
        /\ \A c \in failed : DictHas(agent_responses, c)
        /\ \A k \in 1..Len(classification) :
             is_goal_focused \/ DictHas(agent_responses, classification[k])

\* C30: process_query_with_formatting degrades every failure to text: for
\* every input and every behaviour of the completion service, a failure of
\* the formatting-fix call included, it returns a string and does not raise.
C30_FormattingEntryNeverRaises ==
    /\ fmt_outcome # "raised"
    /\ fmt_outcome = "returned" => fmt_response.kind \in TextKinds \cup {"fixed"}

\* the completion-service call sites of a cycle that have a fallback
FallbackSites ==
    {"should_rewrite", "rewrite", "goal_check", "classify", "goal_intent",
     "param_extraction", "synthesis", "follow_up"}

CmRewriteQuery ==
    /\ cm_pc = "idle"
    /\ \E ls \in ShouldReplies, lr \in RewriteReplies(cm_query) :
         /\ cm_llm_should' = ls
         /\ cm_llm_rewrite' = lr
         /\ cm_out' =
              IF ShouldRewriteQueryRaises(cm_query, cm_hist, ls)
              THEN [op |-> "rewrite_query", raised |-> TRUE, query |-> cm_query,
                    rewritten |-> FALSE, calls |-> 1]
              ELSE LET r == RewriteQuery(cm_query, cm_hist, ls, lr)
                   IN  [op |-> "rewrite_query", raised |-> FALSE, query |-> r.query,
                        rewritten |-> r.rewritten,
                        calls |-> r.should_calls + r.rewrite_calls]
    /\ cm_pc' = "done"
    /\ UNCHANGED <<cm_query, cm_hist>>
    /\ UNCHANGED <<routerVars, xVars, gVars, clVars>>
    /\ UNCHANGED <<sVars, rVars>>

\* context_manager.should_rewrite_query(current_query, chat_history)
CmShouldRewriteQuery ==
    /\ cm_pc = "idle"
    /\ \E ls \in ShouldReplies :
         /\ cm_llm_should' = ls
         /\ cm_out' =
              IF ShouldRewriteQueryRaises(cm_query, cm_hist, ls)
              THEN [op |-> "should_rewrite_query", raised |-> TRUE, query |-> cm_query,
                    rewritten |-> FALSE, calls |-> 1]
              ELSE LET r == ShouldRewriteQuery(cm_query, cm_hist, ls)
                   IN  [op |-> "should_rewrite_query", raised |-> FALSE,
                        query |-> cm_query, rewritten |-> r.result, calls |-> r.calls]
    /\ cm_pc' = "done"
    /\ UNCHANGED <<cm_query, cm_hist, cm_llm_rewrite>>
    /\ UNCHANGED <<routerVars, xVars, gVars, clVars>>
    /\ UNCHANGED <<sVars, rVars>>

InitContext == RouterIdle /\ CmInit /\ XIdle /\ GIdle /\ ClIdle /\ SIdle /\ RIdle

NextContext == CmRewriteQuery \/ CmShouldRewriteQuery

SpecContext == InitContext /\ [][NextContext]_vars

\* C2: rewrite_query with an empty history, or one of fewer than 2 turns,
\* returns exactly (query, False) and makes no completion call.
C2_NoContextNoRewrite ==
    cm_pc = "done" /\ cm_out.op = "rewrite_query" /\ cm_hist < 2 =>
        /\ ~cm_out.raised
        /\ cm_out.query = cm_query
        /\ cm_out.rewritten = FALSE
        /\ cm_out.calls = 0

\* rewrite_query returned for a one-turn history although the completion
\* service would have said YES and supplied another query
C2_Witness ==
    /\ cm_pc = "done"
    /\ cm_out.op = "rewrite_query"
    /\ cm_hist = 1
    /\ cm_llm_should = Reply(<<"Y", "E", "S">>)
    /\ ~cm_llm_rewrite.raises
    /\ Strip(cm_llm_rewrite.text) # <<>>
    /\ cm_query # None
    /\ Lower(Strip(cm_llm_rewrite.text)) # Lower(cm_query)
    /\ cm_out.query = cm_query

\* whitespace-separated words of a query, counted character by character
Words(q) ==
    Cardinality({k \in 1..Len(q) :
                   q[k] \notin Space /\ (k = 1 \/ q[k - 1] \in Space)})

\* C11: with a history of at least 2 turns and a failed completion call,
\* should_rewrite_query on a str query returns True exactly when the query
\* has at most 3 whitespace-separated words, and the failure does not reach
\* the caller.
C11_ShouldRewriteFailurePolicy ==
    /\ cm_pc = "done"
    /\ cm_out.op = "should_rewrite_query"
    /\ cm_hist >= 2
    /\ cm_llm_should.raises
    /\ cm_query # None
    => /\ ~cm_out.raised
       /\ cm_out.rewritten = (Words(cm_query) <= 3)
       /\ cm_out.calls = 1

\* the completion call failed on a three-word query and the answer is True
C11_Witness ==
    /\ cm_pc = "done"
    /\ cm_out.op = "should_rewrite_query"
    /\ cm_hist >= 2
    /\ cm_llm_should.raises
    /\ cm_query # None
    /\ Words(cm_query) = 3
    /\ cm_out.rewritten

\* the answer should_rewrite_query gives inside rewrite_query
CmShould == ShouldRewriteQuery(cm_query, cm_hist, cm_llm_should).result

\* the rewrite completion succeeded with a non-empty text that differs from
\* the query by more than letter case
CmUsableRewrite ==
    /\ ~cm_llm_rewrite.raises
    /\ Strip(cm_llm_rewrite.text) # <<>>
    /\ Lower(Strip(cm_llm_rewrite.text)) # Lower(cm_query)

\* C12: rewrite_query on a str query never raises; it reports True exactly
\* when should_rewrite was true and the rewrite completion succeeded with a
\* non-empty text not identical to the query up to letter case, and then
\* returns that text; in every other case it returns the query unchanged
\* with False.
C12_RewrittenOnlyOnRealRewrite ==
    cm_pc = "done" /\ cm_out.op = "rewrite_query" /\ cm_query # None =>
        /\ ~cm_out.raised
        /\ cm_out.rewritten = (CmShould /\ CmUsableRewrite)
        /\ cm_out.rewritten => cm_out.query = Strip(cm_llm_rewrite.text)
        /\ ~cm_out.rewritten => cm_out.query = cm_query

\* should_rewrite was true and the completion repeated the query in other
\* letter case: the query comes back unchanged with False
C12_Witness ==
    /\ cm_pc = "done"
    /\ cm_out.op = "rewrite_query"
    /\ cm_query # None
    /\ CmShould
    /\ ~cm_llm_rewrite.raises
    /\ Strip(cm_llm_rewrite.text) # <<>>
    /\ Strip(cm_llm_rewrite.text) # cm_query
    /\ Lower(Strip(cm_llm_rewrite.text)) = Lower(cm_query)
    /\ cm_out.query = cm_query
    /\ ~cm_out.rewritten

(***************************************************************************)
(* The regex extractor called directly                                     *)
(***************************************************************************)
\* params = self._extract_goal_parameters(query)
ExtractParameters ==
    /\ x_pc = "idle"
    /\ x_params' = ExtractGoalParameters(x_in, x_now)
    /\ x_pc' = "done"
    /\ UNCHANGED <<x_case, x_in, x_now>>
    /\ UNCHANGED <<routerVars, cmVars, gVars, clVars>>
    /\ UNCHANGED <<sVars, rVars>>

InitExtract == RouterIdle /\ CmIdle /\ XInit /\ GIdle /\ ClIdle /\ SIdle /\ RIdle

NextExtract == ExtractParameters

SpecExtract == InitExtract /\ [][NextExtract]_vars

Has(params, key) == key \in DOMAIN params

\* C8: date round trip of the regex extractor: a valid calendar date written
\* as "by MM/DD/YYYY" comes back as that same MM/DD/YYYY string, and written
\* as DD/MM/YYYY with a day above 12 it comes back as the MM/DD/YYYY string
\* of the same date.
C8_DateRoundTrip ==
    x_pc = "done" /\ (x_case.kind = "mdy" \/ (x_case.kind = "dmy" /\ x_case.d > 12)) =>
        /\ Has(x_params, "target_date")
        /\ x_params["target_date"] = Strftime(MkDate(x_case.y, x_case.m, x_case.d))

\* C9: amount parsing of the regex extractor: target_amount is the numeric
\* value the user wrote, for "$10,000.00", "10k", "1.5 million" and for a
\* currency-prefixed integer without separators such as "$5000".
C9_AmountAsWritten ==
    x_pc = "done" /\ x_case.kind \in {"grouped", "plain", "k", "million"} =>
        /\ Has(x_params, "target_amount")
        /\ x_params["target_amount"] = x_case.value

\* the two slash-separated fields of a date case as the user wrote them
FieldA(c) == IF c.kind = "mdy" THEN c.m ELSE c.d

FieldB(c) == IF c.kind = "mdy" THEN c.d ELSE c.m

\* C14: slash-date disambiguation of the regex extractor: A/B/YYYY is read as
\* DD/MM and swapped only when A is in 1..31, B is in 1..12 and A exceeds 12;
\* in every other case, in particular when A and B are both at most 12, it is
\* read as MM/DD and target_date has month A and day B.
C14_SwapOnlyAboveTwelve ==
    x_pc = "done" /\ x_case.kind \in {"mdy", "dmy"} =>
        LET A == FieldA(x_case)
            B == FieldB(x_case)
            swap == A \in 1..31 /\ B \in 1..12 /\ A > 12
        IN  /\ Has(x_params, "target_date")
            /\ x_params["target_date"] =
                  IF swap THEN Strftime(MkDate(x_case.y, B, A))
                          ELSE Strftime(MkDate(x_case.y, A, B))

(***************************************************************************)
(* The two classifier methods called directly                              *)
(***************************************************************************)
\* self._is_goal_related_request(user_query)
ClIsGoalRelatedRequest ==
    /\ cl_pc = "idle"
    /\ \E llm \in GoalReplies :
         /\ cl_llm' = llm
         /\ cl_out' =
              IF IsGoalRelatedRequestRaises(cl_query, llm)
              THEN [op |-> "is_goal_related_request", raised |-> TRUE]
              ELSE [op |-> "is_goal_related_request", raised |-> FALSE,
                    result |-> IsGoalRelatedRequest(cl_query, llm)]
    /\ cl_pc' = "done"
    /\ UNCHANGED cl_query
    /\ UNCHANGED <<routerVars, cmVars, xVars, gVars>>
    /\ UNCHANGED <<sVars, rVars>>

\* self._classify_query(user_query, user_context)
ClClassifyQuery ==
    /\ cl_pc = "idle"
    /\ \E llm \in ClassifyReplies :
         /\ cl_llm' = llm
         /\ cl_out' =
              IF ClassifyQueryRaises(cl_query, llm)
              THEN [op |-> "classify_query", raised |-> TRUE]
              ELSE [op |-> "classify_query", raised |-> FALSE,
                    result |-> ClassifyQuery(cl_query, llm)]
    /\ cl_pc' = "done"
    /\ UNCHANGED cl_query
    /\ UNCHANGED <<routerVars, cmVars, xVars, gVars>>
    /\ UNCHANGED <<sVars, rVars>>

InitClassifier == RouterIdle /\ CmIdle /\ XIdle /\ GIdle /\ ClInit /\ SIdle /\ RIdle

NextClassifier == ClIsGoalRelatedRequest \/ ClClassifyQuery

SpecClassifier == InitClassifier /\ [][NextClassifier]_vars

\* a label with its letters lower-cased
LabelLower(label) ==
    CASE label = "Transaction Analysis" -> "transaction analysis"
      [] label = "Goal Planning" -> "goal planning"
      [] label = "Asset Allocation" -> "asset allocation"
      [] label = "Education" -> "education"
      [] label = "General Financial Advice" -> "general financial advice"
      [] label = "Budgeting" -> "budgeting"
      [] OTHER -> label

\* the labels of a response that equal a vocabulary label up to letter case
RECURSIVE MatchUpToCase(_)
MatchUpToCase(labels) ==
    IF labels = <<>> THEN <<>>
    ELSE (IF \E k \in 1..Len(valid_categories) :
                LabelLower(valid_categories[k]) = LabelLower(Head(labels))
          THEN <<Head(labels)>> ELSE <<>>)
         \o MatchUpToCase(Tail(labels))

ClClassified ==
    /\ cl_pc = "done"
    /\ cl_out.op = "classify_query"
    /\ ~cl_out.raised
    /\ ~cl_llm.raises
    /\ cl_llm.marker

\* C15: validation of the primary classification pass: every label of the
\* response that equals a vocabulary label up to letter case (such as
\* "goal planning") is retained, in the order of the response; labels that
\* match no vocabulary entry are dropped; a response without a matching
\* label makes the fallback pass run.
C15_CaseInsensitiveValidation ==
    ClClassified =>
        LET kept == MatchUpToCase(cl_llm.labels)
        IN  IF kept # <<>>
            THEN /\ Len(cl_out.result) = Len(kept)
                 /\ \A k \in 1..Len(kept) :
                      LabelLower(cl_out.result[k]) = LabelLower(kept[k])
            ELSE cl_out.result = HeuristicCategories(cl_query)

ClGoalChecked ==
    /\ cl_pc = "done"
    /\ cl_out.op = "is_goal_related_request"
    /\ ~cl_out.raised

\* C16: the goal-focus check answers by its regex battery whenever the
\* primary pass fails, be it by an exception of the completion call or by a
\* response that is neither YES nor NO (such as "Yes." or free text): the
\* result is then whether a goal pattern matches the lower-cased query.
C16_UnparseableReplyUsesRegex ==
    ClGoalChecked /\ cl_query # None =>
        LET answer == IF cl_llm.raises THEN <<>> ELSE Upper(Strip(cl_llm.text))
            battery == \E k \in 1..Len(goal_creation_patterns) :
                          Search(goal_creation_patterns[k], Lower(cl_query)).found
        IN  IF ~cl_llm.raises /\ answer = <<"Y", "E", "S">> THEN cl_out.result
            ELSE IF ~cl_llm.raises /\ answer = <<"N", "O">> THEN ~cl_out.result
            ELSE cl_out.result = battery

(***************************************************************************)
(* The create-goal handler over the goal store                             *)
(***************************************************************************)
\* _handle_create_goal(query, customer_id)
HandleCreateGoal ==
    /\ g_pc = "idle"
    /\ \E now \in Nows :
       \E regex_params \in {ExtractGoalParameters(g_query, now)} :
       \E llm \in ExtractionReplies, io \in HandlerOutcomes,
          readback \in {"found", "missing", "raise"} :
         LET params  == ExtractedParams(llm, regex_params)
             missing == MissingParams(params)
             full    == WithDefaults(params)
         IN  /\ g_llm' = llm
             /\ g_regex' = regex_params
             /\ g_params' = params
             /\ IF IsGeneralIntent(g_query) /\ Cardinality(DOMAIN params) <= 1
                THEN /\ g_reply' = "guidance"
                     /\ g_missing' = <<>>
                     /\ UNCHANGED <<g_create_calls, goals>>
                ELSE IF missing # <<>>
                THEN /\ g_reply' = "missing"
                     /\ g_missing' = missing
                     /\ UNCHANGED <<g_create_calls, goals>>
                ELSE /\ g_missing' = <<>>
                     /\ g_create_calls' = g_create_calls + 1
                     /\ IF CreateGoalRaises(full, io)
                        THEN g_reply' = "error" /\ goals' = goals
                        ELSE /\ goals' = CreateGoal(goals, selected_user, full)
                             /\ g_reply' = CASE readback = "found"   -> "created"
                                             [] readback = "missing" -> "processed"
                                             [] OTHER                -> "error"
    /\ g_pc' = "done"
    /\ UNCHANGED g_query
    /\ UNCHANGED <<routerVars, cmVars, xVars, clVars>>
    /\ UNCHANGED <<sVars, rVars>>

\* the user's next create-goal request
NextGoalRequest ==
    /\ g_pc = "done"
    /\ Len(goals) < MaxGoals
    /\ g_query' \in GoalQueries
    /\ g_pc' = "idle"
    /\ g_reply' = "none"
    /\ g_regex' = <<>>
    /\ g_params' = <<>>
    /\ g_missing' = <<>>
    /\ g_create_calls' = 0
    /\ UNCHANGED <<g_llm, goals>>
    /\ UNCHANGED <<routerVars, cmVars, xVars, clVars>>
    /\ UNCHANGED <<sVars, rVars>>

InitGoal == RouterIdle /\ CmIdle /\ XIdle /\ GInit /\ ClIdle /\ SIdle /\ RIdle

NextGoal == HandleCreateGoal \/ NextGoalRequest

SpecGoal == InitGoal /\ [][NextGoal]_vars

\* C10: when the extracted record holds goal_type, target_amount and
\* target_date, the create-goal handler goes on to create_goal and returns
\* no clarification prompt.
C10_TypeAmountDateSuffice ==
    /\ g_pc = "done"
    /\ {"goal_type", "target_amount", "target_date"} \subseteq DOMAIN g_params
    => /\ g_reply \notin {"guidance", "missing"}
       /\ g_create_calls = 1

\* the LLM pass parsed and produced at least 2 fields
LlmRecordUsable == g_llm.kind = "json" /\ Cardinality(DOMAIN g_llm.params) >= 2

\* C17: parameter extraction picks whole records: the record the handler
\* works with is exactly the LLM-extracted record when the LLM pass parsed
\* and produced at least 2 fields, and exactly the regex-extracted record
\* when the LLM pass raised, did not parse, or produced 0 or 1 field; it is
\* never a field-by-field mixture, and a parse failure does not raise to the
\* handler, which still answers.
C17_WholeRecordSelection ==
    g_pc = "done" =>
        /\ LlmRecordUsable => g_params = g_llm.params
        /\ ~LlmRecordUsable => g_params = g_regex
        /\ g_reply \in {"guidance", "missing", "created", "processed", "error"}

\* the LLM record has two fields and lacks the target date the regex pass
\* found: the handler works with the LLM record alone
C17_Witness ==
    /\ g_pc = "done"
    /\ LlmRecordUsable
    /\ "target_date" \notin DOMAIN g_llm.params
    /\ "target_date" \in DOMAIN g_regex
    /\ g_params = g_llm.params

\* a required field is absent from the record
RequiredFieldAbsent(params) ==
    \E field \in {"goal_name", "target_amount", "target_date"} : field \notin DOMAIN params

\* C18: when a required field (goal_name, target_amount, target_date) is
\* absent from the chosen record, the create-goal handler returns a
\* clarification text, does not call create_goal and leaves the goal store
\* as it was.
C18_MissingFieldLeavesStore ==
    [][g_pc = "idle" /\ g_pc' = "done" /\ RequiredFieldAbsent(g_params') =>
         /\ g_reply' \in {"guidance", "missing"}
         /\ g_create_calls' = 0
         /\ goals' = goals]_vars

\* a request lacking a required field was answered by the clarification
\* while the store already held a goal
C18_Witness ==
    /\ g_pc = "done"
    /\ RequiredFieldAbsent(g_params)
    /\ g_reply = "missing"
    /\ g_missing # <<>>
    /\ g_create_calls = 0
    /\ Len(goals) = 1

(***************************************************************************)
(* GoalDataManager called directly, one call after the other, from an      *)
(* empty goals file                                                        *)
(***************************************************************************)
gReqVars == <<g_pc, g_query, g_llm, g_regex, g_params, g_reply, g_missing, g_create_calls>>

wVars == <<w_pc, w_op, w_df, w_ret, w_order>>

CallCreateGoal ==
    /\ Len(goals) < MaxGoals
    /\ NextGoalId(goals) <= MaxGoalId
    /\ \E customer_id \in Customers, io \in HandlerOutcomes :
         IF CreateGoalRaises(StoreParams, io)
         THEN /\ goals' = goals
              /\ s_call' = [op |-> "create_goal", goal_id |-> 0, arg |-> customer_id,
                            ret |-> 0, raised |-> TRUE, before |-> goals]
         ELSE /\ goals' = CreateGoal(goals, customer_id, StoreParams)
              /\ s_call' = [op |-> "create_goal", goal_id |-> 0, arg |-> customer_id,
                            ret |-> NextGoalId(goals), raised |-> FALSE, before |-> goals]
    /\ UNCHANGED <<routerVars, cmVars, xVars, gReqVars, clVars, wVars, rVars>>

CallUpdateGoal ==
    /\ \E goal_id \in GoalIdArgs, kwargs \in UpdateKwargs, io \in HandlerOutcomes :
         LET r == UpdateGoal(goals, goal_id, kwargs, io)
         IN  /\ goals' = r.store
             /\ s_call' = [op |-> "update_goal", goal_id |-> goal_id, arg |-> kwargs,
                           ret |-> r.ret, raised |-> FALSE, before |-> goals]
    /\ UNCHANGED <<routerVars, cmVars, xVars, gReqVars, clVars, wVars, rVars>>

CallDeleteGoal ==
    /\ \E goal_id \in GoalIdArgs, io \in HandlerOutcomes :
         LET r == DeleteGoal(goals, goal_id, io)
         IN  /\ goals' = r.store
             /\ s_call' = [op |-> "delete_goal", goal_id |-> goal_id, arg |-> 0,
                           ret |-> r.ret, raised |-> FALSE, before |-> goals]
    /\ UNCHANGED <<routerVars, cmVars, xVars, gReqVars, clVars, wVars, rVars>>

CallContributeToGoal ==
    /\ \E goal_id \in GoalIdArgs, amount \in ContributionAmounts, io \in HandlerOutcomes :
         LET r == ContributeToGoal(goals, goal_id, amount, io)
         IN  /\ goals' = r.store
             /\ s_call' = [op |-> "contribute_to_goal", goal_id |-> goal_id, arg |-> amount,
                           ret |-> r.ret, raised |-> FALSE, before |-> goals]
    /\ UNCHANGED <<routerVars, cmVars, xVars, gReqVars, clVars, wVars, rVars>>

InitStore == RouterIdle /\ CmIdle /\ XIdle /\ GIdle /\ ClIdle /\ SIdle /\ RIdle

NextStore == CallCreateGoal \/ CallUpdateGoal \/ CallDeleteGoal \/ CallContributeToGoal

SpecStore == InitStore /\ [][NextStore]_vars

GoalIds(store) == {store[k].goal_id : k \in 1..Len(store)}

\* C27: from an empty goals file, after any sequence of create_goal,
\* update_goal and delete_goal calls made one after the other, the Goal IDs
\* in the file are pairwise distinct, and the ID create_goal returns is none
\* of the IDs the file held when it was called.
C27_GoalIdsUnique ==
    /\ \A j, k \in 1..Len(goals) : j # k => goals[j].goal_id # goals[k].goal_id
    /\ s_call.op = "create_goal" /\ ~s_call.raised =>
         /\ s_call.ret \notin GoalIds(s_call.before)
         /\ s_call.ret \in GoalIds(goals)

\* a goal created after the first of two goals was deleted
C27_Witness ==
    /\ s_call.op = "create_goal"
    /\ ~s_call.raised
    /\ GoalIds(s_call.before) = {2}
    /\ GoalIds(goals) = {2, 3}

\* C24: contribute_to_goal returns True only when the stored Current
\* Savings of the goal has grown by exactly the amount; for an amount <= 0
\* or an unknown goal it returns False and leaves the file unchanged.
C24_ContributionAddsAmount ==
    s_call.op = "contribute_to_goal" =>
        /\ s_call.ret =>
              /\ GoalExists(s_call.before, s_call.goal_id)
              /\ GoalExists(goals, s_call.goal_id)
              /\ GetGoalById(goals, s_call.goal_id).current_savings =
                    GetGoalById(s_call.before, s_call.goal_id).current_savings + s_call.arg
        /\ s_call.arg <= 0 \/ ~GoalExists(s_call.before, s_call.goal_id) =>
              /\ ~s_call.ret
              /\ goals = s_call.before

(***************************************************************************)
(* Two request cycles calling GoalDataManager at the same time: each call  *)
(* reads the goals file into a frame (pd.read_csv), changes the frame and  *)
(* writes it back (df.to_csv); update_goal then reads the file again to    *)
(* verify.  Nothing locks the file between the steps.                      *)
(***************************************************************************)
\* goals files the calls start from
InitialStores == {<<>>, CreateGoal(<<>>, selected_user, StoreParams)}

\* the calls that write the file
StoreOps ==
    {[op |-> "create_goal", goal_id |-> 0, customer_id |-> c, kwargs |-> <<>>] :
        c \in Customers}
    \cup {[op |-> "update_goal", goal_id |-> g, customer_id |-> <<>>, kwargs |-> kw] :
            g \in 1..MaxGoals, kw \in UpdateKwargs}
    \cup {[op |-> "delete_goal", goal_id |-> g, customer_id |-> <<>>, kwargs |-> <<>>] :
            g \in 1..MaxGoals}

\* the frame a call writes back, from the frame df it read; writes is
\* false when the call returns before df.to_csv
ChangedFrame(df, call, io) ==
    CASE call.op = "create_goal" ->
           IF CreateGoalRaises(StoreParams, io)
           THEN [writes |-> FALSE, ret |-> "raised", df |-> df]
           ELSE [writes |-> TRUE, ret |-> "created",
                 df |-> CreateGoal(df, call.customer_id, StoreParams)]
      [] call.op = "update_goal" ->
           LET r == UpdateGoal(df, call.goal_id, call.kwargs, io)
           IN  [writes |-> r.ret, ret |-> IF r.ret THEN "none" ELSE "False", df |-> r.store]
      [] OTHER ->
           LET r == DeleteGoal(df, call.goal_id, io)
           IN  [writes |-> r.ret, ret |-> IF r.ret THEN "True" ELSE "False", df |-> r.store]

\* the verification of update_goal over the file as it is now
UpdateVerified(file, call) ==
    /\ GoalExists(file, call.goal_id)
    /\ \A key \in DOMAIN call.kwargs :
         key \in column_mapping /\ key \in DOMAIN GetGoalById(file, call.goal_id) =>
             GetGoalById(file, call.goal_id)[key] = call.kwargs[key]

\* pd.read_csv(self.goals_file) of a call
ReadCsv(p) ==
    /\ w_pc[p] = "idle"
    /\ \E call \in StoreOps :
         /\ call.op = "create_goal" =>
                Len(goals) < MaxGoals /\ NextGoalId(goals) <= MaxGoalId
         /\ w_op' = [w_op EXCEPT ![p] = call]
    /\ w_df' = [w_df EXCEPT ![p] = goals]
    /\ w_pc' = [w_pc EXCEPT ![p] = "read"]
    /\ UNCHANGED <<goals, s_call, w_ret, w_order>>
    /\ UNCHANGED <<routerVars, cmVars, xVars, gReqVars, clVars, rVars>>

\* the change of the frame and df.to_csv(self.goals_file)
WriteCsv(p) ==
    /\ w_pc[p] = "read"
    /\ \E io \in HandlerOutcomes :
         LET r == ChangedFrame(w_df[p], w_op[p], io)
         IN  /\ w_df' = [w_df EXCEPT ![p] = r.df]
             /\ w_ret' = [w_ret EXCEPT ![p] = r.ret]
             /\ IF r.writes
                THEN /\ goals' = ToCsv(r.df, goals)
                     /\ w_order' = Append(w_order, p)
                     /\ w_pc' = [w_pc EXCEPT ![p] =
                                   IF w_op[p].op = "update_goal" THEN "written" ELSE "done"]
                ELSE /\ UNCHANGED <<goals, w_order>>
                     /\ w_pc' = [w_pc EXCEPT ![p] = "done"]
    /\ UNCHANGED <<s_call, w_op>>
    /\ UNCHANGED <<routerVars, cmVars, xVars, gReqVars, clVars, rVars>>

\* verification_df = pd.read_csv(self.goals_file) of update_goal
VerifyUpdate(p) ==
    /\ w_pc[p] = "written"
    /\ w_ret' = [w_ret EXCEPT ![p] =
                   IF UpdateVerified(goals, w_op[p]) THEN "True" ELSE "False"]
    /\ w_pc' = [w_pc EXCEPT ![p] = "done"]
    /\ UNCHANGED <<goals, s_call, w_op, w_df, w_order>>
    /\ UNCHANGED <<routerVars, cmVars, xVars, gReqVars, clVars, rVars>>

InitConcurrent ==
    /\ RouterIdle /\ CmIdle /\ XIdle /\ ClIdle /\ GReqIdle /\ RIdle
    /\ goals \in InitialStores
    /\ s_call = NoCall
    /\ w_pc = [p \in Cycles |-> "idle"]
    /\ w_op = [p \in Cycles |-> NoCall]
    /\ w_df = [p \in Cycles |-> <<>>]
    /\ w_ret = [p \in Cycles |-> "none"]
    /\ w_order = <<>>

NextConcurrent == \E p \in Cycles : ReadCsv(p) \/ WriteCsv(p) \/ VerifyUpdate(p)

SpecConcurrent == InitConcurrent /\ [][NextConcurrent]_vars

\* C23: writes of the goals file are last-writer-wins: every call reads the
\* whole file, changes its copy and writes the whole copy back without a
\* lock, so whenever calls of two cycles interleave the file holds exactly
\* the copy of the cycle that wrote last, whatever the earlier one wrote.
C23_LastWriterWins ==
    w_order # <<>> => goals = w_df[w_order[Len(w_order)]]

\* two cycles created a goal in an empty file and finished; the file holds
\* only the goal of the later writer
C23_Witness ==
    /\ Len(w_order) = 2
    /\ \A p \in Cycles : w_pc[p] = "done" /\ w_ret[p] = "created"
    /\ Len(goals) = 1
    /\ goals[1].customer_id = Lower(w_op[w_order[2]].customer_id)
    /\ w_op[1].customer_id # w_op[2].customer_id

(***************************************************************************)
(* GoalPlanningAgent.handle_goal_request over the goals file               *)
(***************************************************************************)
\* intent = self._determine_intent(request, formatted_customer_id)
DetermineIntentCall ==
    /\ r_pc = "idle"
    /\ \E llm \in IntentReplies :
         /\ r_llm' = llm
         /\ r_intent' = DetermineIntent(DetermineIntentWithLlm(llm), r_regex_intent.intent)
    /\ r_pc' = "intent"
    /\ UNCHANGED <<r_request, r_customer, r_regex_intent, r_regex_params, r_response,
                   r_result, r_before, goals>>
    /\ UNCHANGED <<routerVars, cmVars, xVars, gReqVars, clVars, sVars>>

\* the handler of the intent, and the shape of the returned value
HandleGoalRequest ==
    /\ r_pc = "intent"
    /\ r_intent = "create_goal" => Len(goals) < MaxGoals
    /\ \E goal_id \in {ExtractGoalId(goals, r_request, Lower(r_customer))} :
       \E env \in RequestEnvs :
       \E h \in {HandleIntent(r_intent, goals,
                              [query |-> r_request, regex_params |-> r_regex_params,
                               goal_id |-> goal_id],
                              Lower(r_customer), env)} :
         /\ goals' = h.store
         /\ r_response' = h.response
         /\ r_result' = IF h.raised THEN "raised"
                        ELSE ResponseType(h.store, r_request, Lower(r_customer),
                                          h.response)
    /\ r_pc' = "done"
    /\ UNCHANGED <<r_request, r_customer, r_regex_intent, r_regex_params, r_llm, r_intent,
                   r_before>>
    /\ UNCHANGED <<routerVars, cmVars, xVars, gReqVars, clVars, sVars>>

InitRequest ==
    /\ r_request \in RequestQueries
    /\ r_regex_intent = DetermineIntentWithRegex(r_request)
    /\ r_regex_params = ExtractGoalParameters(r_request, RequestNow)
    /\ r_customer \in Customers
    /\ goals \in RequestStores
    /\ r_before = goals
    /\ r_pc = "idle"
    /\ r_llm = Raise
    /\ r_intent = NoIntent
    /\ r_response = NoResponse
    /\ r_result = "none"
    /\ RouterIdle /\ CmIdle /\ XIdle /\ ClIdle /\ GReqIdle /\ SIdle

NextRequest == DetermineIntentCall \/ HandleGoalRequest

SpecRequest == InitRequest /\ [][NextRequest]_vars

IntentDetermined == r_pc \in {"intent", "done"}

\* C21 as stated: _determine_intent returns exactly one of the six intents,
\* and general_goal_query whenever the LLM pass gives no valid label and no
\* regex pattern of the fallback matches.
C21_DefaultWhenNoPatternMatches ==
    IntentDetermined =>
        /\ InSeq(r_intent, valid_intents)
        /\ DetermineIntentWithLlm(r_llm) = NoIntent /\ r_regex_intent.by # "pattern" =>
              r_intent = "general_goal_query"

\* C21: for every text query and every reply of the completion service
\* _determine_intent returns exactly one of the six intents: the LLM's when
\* its reply holds one, else the one of the regex pass, which is
\* general_goal_query only when no goal-type indicator, no pattern and no
\* creation term next to "goal" is found; an indicator or a creation term
\* gives create_goal although no pattern matched.
C21_ExactlyOneIntent ==
    IntentDetermined =>
        /\ InSeq(r_intent, valid_intents)
        /\ DetermineIntentWithLlm(r_llm) # NoIntent =>
              r_intent = DetermineIntentWithLlm(r_llm)
        /\ DetermineIntentWithLlm(r_llm) = NoIntent =>
              /\ r_intent = r_regex_intent.intent
              /\ r_regex_intent.by = "default" => r_intent = "general_goal_query"
              /\ r_regex_intent.by \in {"indicator", "creation_terms"} =>
                    r_intent = "create_goal"

\* the completion call failed and the regex pass found nothing
C21_Witness ==
    /\ r_pc = "intent"
    /\ r_llm.raises
    /\ r_regex_intent.by = "default"
    /\ r_intent = "general_goal_query"

\* C22: the classifiers and the parameter extractor leave the goals file
\* as it is: the step that determines the intent never changes it, and it
\* changes only in the handler of a create, modify or delete intent.
C22_ClassifiersLeaveStore ==
    [][/\ r_pc = "idle" => goals' = goals
       /\ goals' # goals =>
            /\ r_pc = "intent"
            /\ r_intent \in {"create_goal", "modify_goal", "delete_goal"}]_vars

\* a status request answered over a file that holds goals
C22_Witness ==
    /\ r_pc = "done"
    /\ r_intent = "goal_status"
    /\ r_response.kind = "llm"
    /\ goals # <<>>
    /\ goals = r_before

\* C25: a modify or delete request of one customer changes or removes only
\* goals of that customer; a Goal ID written in the query that belongs to
\* another customer never gets that customer's goal updated or deleted.
C25_CustomerIsolation ==
    r_pc = "done" /\ r_intent \in {"modify_goal", "delete_goal"} =>
        \A k \in 1..Len(r_before) :
            r_before[k].customer_id # Lower(r_customer) => InSeq(r_before[k], goals)

\* C26: handle_goal_request reports "goal_created" only when the intent was
\* create_goal and create_goal added a goal in this request; a modify or
\* delete request holding "new", "add", "create" or "set up" is never
\* reported as a creation.
C26_GoalCreatedOnlyOnCreation ==
    r_pc = "done" /\ r_result = "goal_created" =>
        /\ r_intent = "create_goal"
        /\ Len(goals) = Len(r_before) + 1
====
